---------------------------- MODULE Spec2Model ----------------------------
(***************************************************************************)
(* A model of Homey's generation service (src/services/geminiService.ts):  *)
(* the backoff retrier retryOperation, the operations it wraps, the two    *)
(* sequential image batches and the text functions, and of App.tsx's       *)
(* generateFullPlan and handleSubmit on top of them.  The external         *)
(* generation service is the environment: every request it receives is     *)
(* answered by a response or an error chosen nondeterministically.  Under   *)
(* Spec one behaviour is one call of one function, from the call to its    *)
(* settlement.  SpecGeneration is Spec restricted to the two handlers, with *)
(* fairness for the steps the event loop takes.  Under SpecApp a behaviour  *)
(* is a session on the page: handlers start generation chains, and the     *)
(* components of the results page talk to the service on their own.        *)
(* SpecForm follows the upload form's choices next to the chains, SpecChat *)
(* the life of a mounted ChatWidget (with fairness for the event loop's    *)
(* steps) and SpecIllustration the life of one StepIllustration.           *)
(***************************************************************************)
EXTENDS Integers, Sequences, FiniteSets, TLC

VARIABLES
    fn,           \* the function that was called: "none" before the call
    pc,           \* "idle" | "inflight" | "backoff" | "delay" | "done"
    site,         \* the operation the running retryOperation wraps
    retries,      \* retryOperation's parameter `retries` in the current frame
    baseDelay,    \* retryOperation's parameter `baseDelay` in the current frame
    initRetries,  \* `retries` as given to the outermost frame
    initDelay,    \* `baseDelay` as given to the outermost frame
    invocations,  \* times operation() was invoked by the running retryOperation
    waits,        \* the waits (ms) the running retryOperation completed, in order
    warnings,     \* console.warn calls of the running retryOperation
    script,       \* the behaviour of the fake operation given to retryOperation
    lastSvc,      \* the answer to the latest invocation ("none" while in flight)
    result,       \* the settlement of the called function's promise
    count,        \* getRealWorldReferences' parameter `count`
    customViews,  \* generateInspirationImages' parameter `customViews`
    views,        \* generateInspirationImages' local `views`
    references,   \* generateInspirationImages' local `references`
    i,            \* the batch loop's index (0-based, as in the source)
    ref,          \* the reference URL handed to generateSingleImage
    results,      \* the batch loop's local `results`
    fixedWaits,   \* the fixed inter-item waits (ms) the batch completed, in order
    log,          \* per finished item: what the service finally answered for it
    styles,       \* generateSurpriseImages' parameter `styles`
    inflight,     \* service requests issued and not yet answered
    requested,    \* the sites at which a service request has been issued
    caller,       \* the App function awaiting the service call: "none" if none
    step,         \* App's state `step`
    resultData,   \* App's state `resultData`
    errorMessage, \* App's state `errorMessage`
    selectedImage,\* App's state `selectedImage`
    initialImage, \* generateFullPlan's parameter `initialImage`
    plan,         \* generateFullPlan's local `plan`
    before,       \* App's `step` and `resultData` when generateFullPlan was called
    chains,       \* the generation chains started by the handlers and still running
    illus,        \* the StepIllustration components of the results page
    isSending,    \* ChatWidget's state `isSending`
    flyingChain,  \* per chain: its service requests in flight
    flyingIllus,  \* per step illustration: its service requests in flight
    flyingChat,   \* the chat widget's service requests in flight
    current,      \* the chain started last; 0 if none since the page was reset
    pageFrom,     \* who set `step` last: the user, the current or a stale chain
    ops,          \* the retryOperation calls started so far, by site, in order
    lookup,       \* how the surprise loop's latest reference lookup was answered
    inspirationImage, \* App's state `inspirationImage`
    selectedStyle,\* App's state `selectedStyle`
    fullPlanStyle,\* generateFullPlan's parameter `style`
    selectedCategory, \* App's state `selectedCategory`
    messages,     \* ChatWidget's state `messages`
    input,        \* ChatWidget's state `input`
    history,      \* sendProjectChat's parameter `history`
    newMessage,   \* sendProjectChat's parameter `newMessage`
    illustration, \* one StepIllustration: whether it is mounted, and its state
    effects       \* the runs of its effect: `mounted`, and how far fetchImage is

vars == <<fn, pc, site, retries, baseDelay, initRetries, initDelay, invocations,
          waits, warnings, script, lastSvc, result, count, customViews, views,
          references, i, ref, results, fixedWaits, log, styles, inflight,
          requested, caller, step, resultData, errorMessage, selectedImage,
          initialImage, plan, before, chains, illus, isSending, flyingChain,
          flyingIllus, flyingChat, ops, lookup, inspirationImage, selectedStyle,
          current, pageFrom, fullPlanStyle, selectedCategory, messages, input,
          history, newMessage, illustration, effects>>

\* The variables of the page as a whole: several chains and components at once.
\* The chat widget's messages and input, and the arguments of its request.
chatVars == <<messages, input, history, newMessage>>

\* One StepIllustration followed on its own.
illusVars == <<illustration, effects>>

pageVars == <<chains, illus, isSending, flyingChain, flyingIllus, flyingChat,
              current, pageFrom, selectedCategory, chatVars, illusVars>>

\* The variables of one call of a service function or of generateFullPlan.
callVars ==
    <<fn, pc, site, retries, baseDelay, initRetries, initDelay, invocations, waits,
      warnings, script, lastSvc, result, count, customViews, views, references, i,
      ref, results, fixedWaits, log, styles, inflight, requested, caller,
      initialImage, plan, before, ops, lookup, fullPlanStyle, chatVars, illusVars>>

\* The choices of the upload form.
formVars == <<inspirationImage, selectedStyle, selectedCategory>>

appVars == <<caller, step, resultData, errorMessage, selectedImage, initialImage,
             plan, before, inspirationImage, selectedStyle, fullPlanStyle>>

---------------------------------------------------------------------------
(* Bounds of the model.                                                    *)

MaxRetries == 4
MaxSmallDelay == 1
MaxChunks == 4
MaxParts == 2
MaxViews == 3
MaxStyles == 5
MaxChains == 2
MaxIllustrations == 2
MaxMessages == 5
MaxEffects == 3

(* Program constants.                                                      *)

DefaultRetries == 3
DefaultBaseDelay == 2000
StepImageRetries == 1
StepImageBaseDelay == 3000
InspirationDelay == 2000
SurpriseDelay == 3000
ReferenceCount == 3
SurpriseReferenceCount == 1
TooManyRequests == 429

---------------------------------------------------------------------------
(* Values.                                                                 *)

Null == "null"
EmptyString == ""

\* error.message values, as character sequences (String.prototype.includes
\* is a case-sensitive substring test).
MsgAbsent == <<>>
MsgQuota == <<"o","v","e","r"," ","q","u","o","t","a">>
MsgCapitalQuota == <<"Q","u","o","t","a"," ","h","i","t">>
Msg429 == <<"H","T","T","P"," ","4","2","9">>
MsgFetch == <<"f","e","t","c","h"," ","f","a","i","l","e","d">>
Token429 == <<"4","2","9">>
TokenQuota == <<"q","u","o","t","a">>

\* What a thrown value looks like to the catch blocks: its status, its code
\* (0 for absent), its message, and whether it is an instance of Error.
ErrorShapes ==
    { [status |-> TooManyRequests, code |-> 0, message |-> MsgFetch, isError |-> TRUE],
      [status |-> TooManyRequests, code |-> 0, message |-> MsgAbsent, isError |-> FALSE],
      [status |-> 0, code |-> TooManyRequests, message |-> MsgAbsent, isError |-> TRUE],
      [status |-> 0, code |-> 0, message |-> MsgQuota, isError |-> TRUE],
      [status |-> 0, code |-> 0, message |-> Msg429, isError |-> TRUE],
      [status |-> 500, code |-> 500, message |-> MsgFetch, isError |-> TRUE],
      [status |-> 0, code |-> 0, message |-> MsgCapitalQuota, isError |-> TRUE],
      [status |-> 0, code |-> 0, message |-> MsgAbsent, isError |-> FALSE] }

\* The error object thrown by invocation n: the shape plus its identity.
MkErr(shape, n) ==
    [status |-> shape.status, code |-> shape.code, message |-> shape.message,
     isError |-> shape.isError, attempt |-> n]

ShapeOf(e) ==
    [status |-> e.status, code |-> e.code, message |-> e.message, isError |-> e.isError]

\* The messages of the errors the module itself throws, and of the
\* SyntaxError of JSON.parse.  The text of the latter is chosen by the
\* JavaScript engine: some engines name the syntax error only, some quote
\* the offending part of the input.
MsgNoTextGemini ==
    <<"N","o"," ","t","e","x","t"," ","r","e","s","p","o","n","s","e"," ","r",
      "e","c","e","i","v","e","d"," ","f","r","o","m"," ","G","e","m","i","n",
      "i",".">>
MsgNoText ==
    <<"N","o"," ","t","e","x","t"," ","r","e","s","p","o","n","s","e"," ","r",
      "e","c","e","i","v","e","d",".">>
MsgUnexpectedEnd ==
    <<"U","n","e","x","p","e","c","t","e","d"," ","e","n","d"," ","o","f"," ",
      "J","S","O","N"," ","i","n","p","u","t">>
MsgUnexpectedCharacter ==
    <<"J","S","O","N",".","p","a","r","s","e",":"," ","u","n","e","x","p","e",
      "c","t","e","d"," ","c","h","a","r","a","c","t","e","r">>
MsgUnexpectedTokenQuoted ==
    <<"U","n","e","x","p","e","c","t","e","d"," ","t","o","k","e","n"," ">>

\* An Error created by `new Error(message)` or by the engine during invocation n.
NewError(msg, n) ==
    [status |-> 0, code |-> 0, message |-> msg, isError |-> TRUE, attempt |-> n]

Values == {"valueA", "valueB"}
Images == {"imgA", "imgB"}
Uris == {"uri1", "uri2"}

Return(v) == [kind |-> "return", value |-> v]
Throw(e) == [kind |-> "throw", error |-> e]
Resolved(v) == [kind |-> "resolved", value |-> v]
Rejected(e) == [kind |-> "rejected", error |-> e]
Pending == [kind |-> "pending"]
NoResponse == [kind |-> "none"]
Ok(b) == [kind |-> "ok", body |-> b]
Failed(e) == [kind |-> "error", err |-> e]

\* All sequences over S of length at most n.
SeqsUpTo(S, n) == UNION { [1..k -> S] : k \in 0..n }

---------------------------------------------------------------------------
(* retryOperation's decisions (geminiService.ts 12-27).                    *)

\* String.prototype.includes on character sequences.
Includes(s, sub) ==
    \E k \in 1..(Len(s) - Len(sub) + 1) : SubSeq(s, k, k + Len(sub) - 1) = sub

isRateLimit_anyError(error) == TRUE

isRateLimit(error) ==
    \/ error.status = TooManyRequests
    \/ error.code = TooManyRequests
    \/ /\ error.message # MsgAbsent
       /\ (Includes(error.message, Token429) \/ Includes(error.message, TokenQuota))

ShouldRetry_offByOne(r, error) == r > 1 /\ isRateLimit(error)

ShouldRetry_oneTooMany(r, error) == r >= 0 /\ isRateLimit(error)

ShouldRetry(r, error) == r > 0 /\ isRateLimit(error)

warn_silent(n) == n

\* `console.warn(...)` before the wait: one more warning written.
warn(n) == n + 1

NextRetries_unchanged(r) == r

NextRetries(r) == r - 1

NextDelay_linear(d) == d + DefaultBaseDelay

NextDelay(d) == d * 2

---------------------------------------------------------------------------
(* generateSingleImage's operation (geminiService.ts 269-348).             *)

\* A content part: a text part, or an inlineData part with its data.
PartKinds ==
    { [inline |-> FALSE, data |-> EmptyString],
      [inline |-> TRUE, data |-> EmptyString] }
    \cup { [inline |-> TRUE, data |-> img] : img \in Images }

\* response.candidates?.[0]?.content?.parts is undefined, or a list of parts.
ImageBodies ==
    { [candidates |-> FALSE, parts |-> <<>>] }
    \cup { [candidates |-> TRUE, parts |-> p] : p \in SeqsUpTo(PartKinds, MaxParts) }

scanParts_last(parts) ==
    IF \E k \in 1..Len(parts) : parts[k].inline /\ parts[k].data # EmptyString
    THEN parts[CHOOSE k \in 1..Len(parts) :
                  /\ parts[k].inline /\ parts[k].data # EmptyString
                  /\ \A j \in (k + 1)..Len(parts) :
                        ~(parts[j].inline /\ parts[j].data # EmptyString)].data
    ELSE Null

RECURSIVE scanParts(_)
scanParts(parts) ==
    IF parts = <<>> THEN Null
    ELSE IF Head(parts).inline /\ Head(parts).data # EmptyString
         THEN Head(parts).data
         ELSE scanParts(Tail(parts))

extractImage(body) == IF body.candidates THEN scanParts(body.parts) ELSE Null

singleImageCatch_rethrowAll(error) == Throw(error)

singleImageCatch(error) ==
    IF error.isError /\ error.status = TooManyRequests THEN Throw(error) ELSE Return(Null)

---------------------------------------------------------------------------
(* generateStepImage (geminiService.ts 355-399).                           *)

\* `if (parts && parts.length > 0)` and the scan of the parts; null otherwise.
extractStepImage(body) ==
    IF body.candidates /\ Len(body.parts) > 0 THEN scanParts(body.parts) ELSE Null

stepImageCatch_rethrow(out) == out

\* The outer try/catch around `return await retryOperation(...)`: whatever
\* retryOperation rejects with, the function returns null.
stepImageCatch(out) == IF out.kind = "rejected" THEN Resolved(Null) ELSE out

---------------------------------------------------------------------------
(* getRealWorldReferences' operation (geminiService.ts 410-443).           *)

\* A grounding chunk: without web, with web but no uri, or with a web uri.
ChunkKinds ==
    { [web |-> FALSE, uri |-> EmptyString],
      [web |-> TRUE, uri |-> EmptyString] }
    \cup { [web |-> TRUE, uri |-> u] : u \in Uris }

\* response.candidates?.[0]?.groundingMetadata?.groundingChunks is undefined,
\* or a list of chunks.
ReferenceBodiesUpTo(n) ==
    { [candidates |-> FALSE, chunks |-> <<>>] }
    \cup { [candidates |-> TRUE, chunks |-> c] : c \in SeqsUpTo(ChunkKinds, n) }

ReferenceBodies == ReferenceBodiesUpTo(MaxChunks)

\* The answers a lookup may meet.  A call of getRealWorldReferences on its
\* own meets every body; a lookup made by a batch meets the bodies with up to
\* one chunk more than the `count` it keeps.
LookupBodies ==
    IF fn = "getRealWorldReferences" \/ count + 1 >= MaxChunks
    THEN ReferenceBodies
    ELSE ReferenceBodiesUpTo(count + 1)

RECURSIVE collectUrls(_)
collectUrls(chunks) ==
    IF chunks = <<>> THEN <<>>
    ELSE IF Head(chunks).web /\ Head(chunks).uri # EmptyString
         THEN <<Head(chunks).uri>> \o collectUrls(Tail(chunks))
         ELSE collectUrls(Tail(chunks))

RECURSIVE padUrls(_, _)
padUrls(urls, n) ==
    IF Len(urls) < n THEN padUrls(Append(urls, EmptyString), n) ELSE urls

sliceUrls_noSlice(urls, n) == urls

sliceUrls(urls, n) == SubSeq(urls, 1, IF n < Len(urls) THEN n ELSE Len(urls))

referencesTry(body, n) ==
    LET urls == IF body.candidates THEN collectUrls(body.chunks) ELSE <<>>
    IN  Return(sliceUrls(padUrls(urls, n), n))

referencesCatch_rethrow(e, n) == Throw(e)

referencesCatch(e, n) == Return([k \in 1..n |-> EmptyString])

---------------------------------------------------------------------------
(* Text responses (geminiService.ts 152-156, 245-249, 559) and JSON.parse. *)

\* response.text is undefined, or a text: a sequence of tokens.
NoTextBody == [hasText |-> FALSE, text |-> <<>>]
TextBody(t) == [hasText |-> TRUE, text |-> t]

\* `!response.text`: the text is undefined or the empty string.
textFalsy(b) == ~b.hasText \/ b.text = <<>>

\* interface ProjectPlan (types.ts 17-26).
PlanFields ==
    {"styleSummary", "steps", "costEstimate", "timeEstimate", "materials", "tools",
     "safety", "itemDescription"}

CompletePlanText ==
    <<"{", "styleSummary", "steps", "costEstimate", "timeEstimate", "materials",
      "tools", "safety", "itemDescription", "}">>

\* The texts the service may send for a plan: the complete object, objects
\* lacking required fields, and texts that are not JSON.
PlanTexts ==
    { CompletePlanText,
      <<"{", "styleSummary", "costEstimate", "timeEstimate", "materials", "tools",
        "safety", "itemDescription", "}">>,
      <<"{", "styleSummary", "steps">>,
      <<"oops">>,
      <<"quota", "exceeded">> }

PlanBodies == { NoTextBody, TextBody(<<>>) } \cup { TextBody(t) : t \in PlanTexts }

AnalysisFields == {"itemDescription", "styles"}

AnalysisTexts ==
    { <<"{", "itemDescription", "styles", "}">>,
      <<"{", "itemDescription">>,
      <<"429", "Too", "Many", "Requests">> }

AnalysisBodies == { NoTextBody, TextBody(<<>>) } \cup { TextBody(t) : t \in AnalysisTexts }

ChatTexts == { <<"Sand", "it", "first">>, <<"Yes">> }

ChatBodies == { NoTextBody, TextBody(<<>>) } \cup { TextBody(t) : t \in ChatTexts }

\* JSON.parse accepts an object: a brace, keys, a closing brace.
WellFormedJSON(t) ==
    /\ Len(t) >= 2
    /\ t[1] = "{"
    /\ t[Len(t)] = "}"
    /\ \A k \in 2..(Len(t) - 1) : t[k] \notin {"{", "}"}

\* The object JSON.parse returns: the keys the text holds.
JSONparse(t) == [type |-> "object", fields |-> { t[k] : k \in 2..(Len(t) - 1) }]

\* The characters of a token of a text that is not JSON.
TokenChars(tok) ==
    CASE tok = "quota" -> TokenQuota
      [] tok = "429"   -> Token429
      [] OTHER         -> <<"o","o","p","s">>

\* The messages JSON.parse's SyntaxError may carry for a text that is not
\* JSON: the input ended early, or its first token is not acceptable and the
\* engine may quote it.
ParseMessages(t) ==
    IF t[1] = "{"
    THEN { MsgUnexpectedEnd }
    ELSE { MsgUnexpectedCharacter, MsgUnexpectedTokenQuoted \o TokenChars(t[1]) }

\* `JSON.parse(response.text)` during invocation n.
parseText(t, n) ==
    IF WellFormedJSON(t)
    THEN { Return(JSONparse(t)) }
    ELSE { Throw(NewError(m, n)) : m \in ParseMessages(t) }

\* The try block of generateProjectPlan and of generateSurpriseAnalysis after
\* the response arrived: `if (!response.text) throw new Error(msg)`, then
\* `return JSON.parse(response.text)`.
parseResponse(b, msg, n) ==
    IF textFalsy(b) THEN { Throw(NewError(msg, n)) } ELSE parseText(b.text, n)

FallbackApology ==
    <<"I'm having a little trouble connecting right now. Could you ask that again?">>

\* `return response.text || "I'm having a little trouble ..."`.
chatReply_noFallback(b) == b.text

chatReply(b) == IF textFalsy(b) THEN FallbackApology ELSE b.text

\* `${msg.role === 'user' ? 'User' : 'Homey'}: ${msg.text}`.
rolePrefix_alwaysUser(role) == "User"

rolePrefix(role) == IF role = "user" THEN "User" ELSE "Homey"

\* sendProjectChat's prompt, as far as the chat is concerned: the lines of
\* `historyText` (history.map(...), joined by line breaks) under CHAT HISTORY
\* and `newMessage` under USER'S NEW QUESTION.
chatPrompt(h, q) ==
    [historyText |-> [k \in 1..Len(h) |-> <<rolePrefix(h[k].role), ": ", h[k].text>>],
     question |-> q]

---------------------------------------------------------------------------
(* analyzeStyleFromImage (geminiService.ts 168-205).                       *)

MsgCouldNotAnalyze ==
    <<"C","o","u","l","d"," ","n","o","t"," ","a","n","a","l","y","z","e"," ","i","n","s","p","i","r","a","t","i","o","n"," ","i","m","a","g","e",".">>

\* A style description as the service words it, with its surrounding blanks.
StyleTexts == { <<" ", "Warm", " ", "Japandi", " ">> }

StyleBodies == { NoTextBody, TextBody(<<>>) } \cup { TextBody(t) : t \in StyleTexts }

RECURSIVE trimStart(_)
trimStart(t) == IF t # <<>> /\ Head(t) = " " THEN trimStart(Tail(t)) ELSE t

RECURSIVE trimEnd(_)
trimEnd(t) ==
    IF t # <<>> /\ t[Len(t)] = " " THEN trimEnd(SubSeq(t, 1, Len(t) - 1)) ELSE t

\* String.prototype.trim on a text of words and blanks.
trim(t) == trimEnd(trimStart(t))

\* `if (!response.text) throw new Error(...)`, then `return response.text.trim()`.
styleResponse(b, n) ==
    IF textFalsy(b) THEN Throw(NewError(MsgCouldNotAnalyze, n)) ELSE Return(trim(b.text))

---------------------------------------------------------------------------
(* The environment: what an invocation of the wrapped operation meets.     *)

\* A fake operation fails k times with errors of shape failWith and then
\* behaves as `final` says: it returns a value, or fails with another shape.
Scripts ==
    { [k |-> k, failWith |-> s, final |-> f] :
        k \in 0..(MaxRetries + 1), s \in ErrorShapes,
        f \in { Ok(v) : v \in Values }
              \cup { [kind |-> "error", shape |-> t] : t \in ErrorShapes } }

NoScript == [k |-> 0]

ScriptAnswer(sc, n) ==
    IF n <= sc.k THEN Failed(MkErr(sc.failWith, n))
    ELSE IF sc.final.kind = "ok" THEN sc.final
    ELSE Failed(MkErr(sc.final.shape, n))

\* The answers invocation n of the operation at site s may meet.
Responses(s, n) ==
    CASE s = "fake"  -> { ScriptAnswer(script, n) }
      [] s = "image" -> { Ok(b) : b \in ImageBodies }
                        \cup { Failed(MkErr(e, n)) : e \in ErrorShapes }
      [] s = "stepImage" -> { Ok(b) : b \in ImageBodies }
                            \cup { Failed(MkErr(e, n)) : e \in ErrorShapes }
      [] s = "refs"  -> { Ok(b) : b \in LookupBodies }
                        \cup { Failed(MkErr(e, n)) : e \in ErrorShapes }
      [] s = "plan"  -> { Ok(b) : b \in PlanBodies }
                        \cup { Failed(MkErr(e, n)) : e \in ErrorShapes }
      [] s = "analysis" -> { Ok(b) : b \in AnalysisBodies }
                           \cup { Failed(MkErr(e, n)) : e \in ErrorShapes }
      [] s = "chat"  -> { Ok(b) : b \in ChatBodies }
                        \cup { Failed(MkErr(e, n)) : e \in ErrorShapes }
      [] s = "style" -> { Ok(b) : b \in StyleBodies }
                        \cup { Failed(MkErr(e, n)) : e \in ErrorShapes }

\* The operation passed to retryOperation at site s, given the answer: what
\* the async arrow function returns or throws.
Operation(s, resp) ==
    CASE s = "fake"  -> IF resp.kind = "ok" THEN Return(resp.body) ELSE Throw(resp.err)
      [] s = "image" -> IF resp.kind = "ok" THEN Return(extractImage(resp.body))
                        ELSE singleImageCatch(resp.err)
      [] s = "stepImage" -> IF resp.kind = "ok"
                            THEN Return(extractStepImage(resp.body))
                            ELSE Throw(resp.err)
      [] s = "refs"  -> IF resp.kind = "ok" THEN referencesTry(resp.body, count)
                        ELSE referencesCatch(resp.err, count)

\* What the operation at site s may return or throw, given the answer.  The
\* catch blocks of generateProjectPlan, analyzeStyleFromImage,
\* generateSurpriseAnalysis and sendProjectChat log the error and throw it on.
Outcomes(s, resp) ==
    CASE s = "plan" ->
           IF resp.kind = "ok"
           THEN parseResponse(resp.body, MsgNoTextGemini, invocations)
           ELSE { Throw(resp.err) }
      [] s = "analysis" ->
           IF resp.kind = "ok"
           THEN parseResponse(resp.body, MsgNoText, invocations)
           ELSE { Throw(resp.err) }
      [] s = "chat" ->
           IF resp.kind = "ok" THEN { Return(chatReply(resp.body)) }
           ELSE { Throw(resp.err) }
      [] s = "style" ->
           IF resp.kind = "ok" THEN { styleResponse(resp.body, invocations) }
           ELSE { Throw(resp.err) }
      [] OTHER -> { Operation(s, resp) }

---------------------------------------------------------------------------
(* App state (App.tsx 231-237) and generateFullPlan's inputs.              *)

\* resultData is null, a GeneratedResult or a SurpriseResult (types.ts 28-42).
\* enum StyleOption (types.ts 1-9), as far as the handlers tell the values apart.
Transitional == <<"Transitional">>
Japandi == <<"Japandi">>
SurpriseMe == <<"Surprise", " ", "Me!">>

\* enum CategoryOption (types.ts 11-14).
FurnitureFlipping == "Furniture Flipping"
RoomRefresh == "Room Refresh Ideas"

\* selectedStyle after an inspiration upload (setSelectedStyle('')), and the
\* `style` of a generateFullPlan that has not been called.
NoStyle == <<>>

NoResult == [type |-> "null"]

\* A StepIllustration that is not on the page yet, and its state at mount
\* (App.tsx 47-49).
NotRendered == [alive |-> "no", imageUrl |-> Null, loading |-> TRUE, hasError |-> FALSE]
Mounted == [alive |-> "mounted", imageUrl |-> Null, loading |-> TRUE, hasError |-> FALSE]

\* The image generateStepImage gives for the description of effect run r.
StepImages == <<"step image 1", "step image 2", "step image 3", "step image 4">>

\* ChatWidget's first message, and the message of handleSend's catch block.
Greeting ==
    [role |-> "model",
     text |-> <<"Hi! I'm Homey. Need clarification on any steps or materials?">>]
MsgSnag == <<"Sorry, I ran into a snag. Could you try asking again?">>
NoPlan == [type |-> "none", fields |-> {}]
StandardResult(p, imgs) == [type |-> "standard", plan |-> p, inspirationImages |-> imgs]
PreviousStandard == StandardResult([type |-> "object", fields |-> {"previous"}], <<"imgOld">>)
PreviousSurprise ==
    [type |-> "surprise", itemDescription |-> "item",
     suggestions |-> << [style |-> "style 1", image |-> "imgS"] >>]

\* error.message || "Something went wrong."
MsgSomethingWentWrong ==
    <<"S","o","m","e","t","h","i","n","g"," ","w","e","n","t"," ","w","r","o","n","g",".">>

AdditionalViews == <<"slightly angled view", "detail focused view">>

\* The calls of generateFullPlan: from handleSubmit on the upload page
\* (generateFullPlan(selectedStyle)), from a style button of the results page
\* (a preset other than selectedStyle), and from handleSurpriseSelection with
\* a suggestion's style and image (selectedStyle is still 'Surprise Me!');
\* selectedImage may have been cleared.
FullPlanInputs ==
    { [selectedImage |-> Null, initialImage |-> Null,
       selectedStyle |-> Transitional, style |-> Transitional,
       before |-> [step |-> "upload", resultData |-> NoResult]],
      [selectedImage |-> "photo", initialImage |-> Null,
       selectedStyle |-> Transitional, style |-> Transitional,
       before |-> [step |-> "upload", resultData |-> NoResult]],
      [selectedImage |-> "photo", initialImage |-> Null,
       selectedStyle |-> Transitional, style |-> Japandi,
       before |-> [step |-> "results", resultData |-> PreviousStandard]],
      [selectedImage |-> "photo", initialImage |-> "imgS",
       selectedStyle |-> SurpriseMe,
       style |-> <<PreviousSurprise.suggestions[1].style>>,
       before |-> [step |-> "results", resultData |-> PreviousSurprise]] }

ChainIds == 1..MaxChains
IllustrationIds == 1..MaxIllustrations

\* What a finished chain hands to setResultData, and the messages its catch
\* block may hand to setErrorMessage.
NewStandard == StandardResult(JSONparse(CompletePlanText), <<"imgA">>)
FailureMessages == {MsgFetch, MsgSomethingWentWrong}

---------------------------------------------------------------------------
(* Inputs.                                                                 *)

RetryBudgets == 0..MaxRetries \cup {DefaultRetries}
BaseDelays == 0..MaxSmallDelay \cup {DefaultBaseDelay, StepImageBaseDelay}
Counts == {SurpriseReferenceCount, ReferenceCount}
DefaultViews == <<"straight on view", "slightly angled view", "detail focused view">>
ViewNames ==
    <<"custom view 1", "custom view 2", "custom view 3", "custom view 4",
      "custom view 5">>
\* customViews is undefined, or a list of views.
CustomViewInputs ==
    { [given |-> FALSE, list |-> <<>>] }
    \cup { [given |-> TRUE, list |-> SubSeq(ViewNames, 1, n)] : n \in 0..MaxViews }

StyleNames == <<"style 1", "style 2", "style 3", "style 4", "style 5", "style 6">>
StyleInputs == { SubSeq(StyleNames, 1, n) : n \in 0..MaxStyles }

---------------------------------------------------------------------------
(* The state machine.                                                      *)

Init ==
    /\ fn = "none"
    /\ pc = "idle"
    /\ site = "none"
    /\ retries = 0
    /\ baseDelay = 0
    /\ initRetries = 0
    /\ initDelay = 0
    /\ invocations = 0
    /\ waits = <<>>
    /\ warnings = 0
    /\ script = NoScript
    /\ lastSvc = NoResponse
    /\ result = Pending
    /\ count = 0
    /\ customViews = [given |-> FALSE, list |-> <<>>]
    /\ views = <<>>
    /\ references = <<>>
    /\ i = 0
    /\ ref = EmptyString
    /\ results = <<>>
    /\ fixedWaits = <<>>
    /\ log = <<>>
    /\ styles = <<>>
    /\ inflight = 0
    /\ requested = {}
    /\ caller = "none"
    /\ step = "upload"
    /\ resultData = NoResult
    /\ errorMessage = <<>>
    /\ selectedImage = Null
    /\ initialImage = Null
    /\ plan = NoPlan
    /\ before = [step |-> "upload", resultData |-> NoResult]
    /\ chains = [c \in ChainIds |-> "free"]
    /\ illus = [j \in IllustrationIds |-> "unmounted"]
    /\ isSending = FALSE
    /\ flyingChain = [c \in ChainIds |-> 0]
    /\ flyingIllus = [j \in IllustrationIds |-> 0]
    /\ flyingChat = 0
    /\ current = 0
    /\ pageFrom = "user"
    /\ ops = <<>>
    /\ lookup = "none"
    /\ inspirationImage = Null
    /\ selectedStyle = Transitional
    /\ fullPlanStyle = NoStyle
    /\ selectedCategory = FurnitureFlipping
    /\ messages = <<Greeting>>
    /\ input = <<>>
    /\ history = <<>>
    /\ newMessage = <<>>
    /\ illustration = NotRendered
    /\ effects = <<>>

\* A settled service function leaves the behaviour finished, or its awaiting
\* caller ready to resume.
Settled == IF caller = "none" THEN "done" ELSE "returned"

\* The requests still in flight once the awaited one (if any) has been answered.
Outstanding_notAwaited == inflight

Outstanding == IF pc = "inflight" THEN inflight - 1 ELSE inflight

\* retryOperation(operation, r, d) is entered: operation() is invoked at once.
EnterRetry(s, r, d) ==
    /\ site' = s
    /\ retries' = r
    /\ baseDelay' = d
    /\ initRetries' = r
    /\ initDelay' = d
    /\ invocations' = 1
    /\ waits' = <<>>
    /\ warnings' = 0
    /\ lastSvc' = NoResponse
    /\ inflight' = Outstanding + 1
    /\ requested' = requested \cup {s}
    /\ ops' = Append(ops, s)
    /\ pc' = "inflight"

\* retryOperation has settled inside a batch: its frame is gone.
LeaveRetry ==
    /\ site' = "none"
    /\ retries' = 0
    /\ baseDelay' = 0
    /\ initRetries' = 0
    /\ initDelay' = 0
    /\ invocations' = 0
    /\ waits' = <<>>
    /\ warnings' = 0
    /\ lastSvc' = NoResponse
    /\ inflight' = Outstanding
    /\ requested' = requested
    /\ ops' = ops

CallRetryOperation ==
    /\ pc = "idle"
    /\ \E r \in RetryBudgets, d \in BaseDelays, sc \in Scripts :
          /\ fn' = "retryOperation"
          /\ script' = sc
          /\ EnterRetry("fake", r, d)
    /\ UNCHANGED <<result, count, customViews, views, references, i, ref, results,
                   fixedWaits, log, styles>>
    /\ UNCHANGED <<appVars, pageVars, lookup>>

CallGenerateSingleImage ==
    /\ pc = "idle"
    /\ fn' = "generateSingleImage"
    /\ EnterRetry("image", DefaultRetries, DefaultBaseDelay)
    /\ UNCHANGED <<script, result, count, customViews, views, references, i, ref,
                   results, fixedWaits, log, styles>>
    /\ UNCHANGED <<appVars, pageVars, lookup>>

\* generateStepImage(description, style): retryOperation(..., 1, 3000).
CallGenerateStepImage ==
    /\ pc = "idle"
    /\ fn' = "generateStepImage"
    /\ EnterRetry("stepImage", StepImageRetries, StepImageBaseDelay)
    /\ UNCHANGED <<script, result, count, customViews, views, references, i, ref,
                   results, fixedWaits, log, styles>>
    /\ UNCHANGED <<appVars, pageVars, lookup>>

CallGetRealWorldReferences ==
    /\ pc = "idle"
    /\ \E n \in Counts :
          /\ fn' = "getRealWorldReferences"
          /\ count' = n
          /\ EnterRetry("refs", DefaultRetries, DefaultBaseDelay)
    /\ UNCHANGED <<script, result, customViews, views, references, i, ref, results,
                   fixedWaits, log, styles>>
    /\ UNCHANGED <<appVars, pageVars, lookup>>

CallGenerateInspirationImages ==
    /\ pc = "idle"
    /\ \E cv \in CustomViewInputs :
          /\ fn' = "generateInspirationImages"
          /\ customViews' = cv
          /\ count' = ReferenceCount
          /\ EnterRetry("refs", DefaultRetries, DefaultBaseDelay)
    /\ UNCHANGED <<script, result, views, references, i, ref, results, fixedWaits, log,
                   styles>>
    /\ UNCHANGED <<appVars, pageVars, lookup>>

\* The rate-limit signal of the error taxonomy: status 429, code 429, or a
\* message containing '429' or 'quota'.
RateLimitSignal(e) ==
    \/ e.status = 429
    \/ e.code = 429
    \/ \E k \in 1..(Len(e.message) - 2) :
          <<e.message[k], e.message[k + 1], e.message[k + 2]>> = <<"4","2","9">>
    \/ \E k \in 1..(Len(e.message) - 4) :
          <<e.message[k], e.message[k + 1], e.message[k + 2], e.message[k + 3],
            e.message[k + 4]>> = <<"q","u","o","t","a">>

\* `if (img)`: a string is truthy unless it is null or empty.
Truthy(v) == v # Null /\ v # EmptyString

\* What the service finally answered for a view, as the batch's record of it:
\* the image it sent, or why there is none.
Answered(resp) ==
    IF resp.kind = "ok"
    THEN IF \E k \in 1..Len(resp.body.parts) :
               resp.body.parts[k].inline /\ resp.body.parts[k].data # EmptyString
         THEN resp.body.parts[
                 CHOOSE k \in 1..Len(resp.body.parts) :
                    /\ resp.body.parts[k].inline /\ resp.body.parts[k].data # EmptyString
                    /\ \A j \in 1..(k - 1) :
                          ~(resp.body.parts[j].inline
                            /\ resp.body.parts[j].data # EmptyString)].data
         ELSE "noImage"
    ELSE IF RateLimitSignal(resp.err)
         THEN "rateLimitError"
         ELSE "otherError"

\* `if (i > 0) await wait(...)`: the fixed wait precedes item k of a batch.
waitsBefore_always(k) == TRUE

waitsBefore(k) == k > 0

\* The loop of generateInspirationImages from its test `i < views.length` with
\* index k, list vs and results rs: either the next generateSingleImage is
\* started (after the fixed wait, when k > 0) or the function returns.
InspirationLoop(k, vs, rs) ==
    /\ i' = k
    /\ results' = rs
    /\ IF k < Len(vs)
       THEN /\ ref' = references'[(k % Len(references')) + 1]
            /\ result' = result
            /\ IF waitsBefore(k)
               THEN LeaveRetry /\ pc' = "delay"
               ELSE EnterRetry("image", DefaultRetries, DefaultBaseDelay)
       ELSE /\ ref' = ref
            /\ result' = Resolved(rs)
            /\ LeaveRetry
            /\ pc' = Settled

\* `const references = await getRealWorldReferences(...)` has settled.
AfterReferences(out) ==
    IF out.kind = "rejected"
    THEN /\ result' = out
         /\ pc' = Settled
         /\ LeaveRetry
         /\ UNCHANGED <<views, references, i, ref, results, log>>
    ELSE /\ references' = out.value
         /\ views' = IF customViews.given THEN customViews.list ELSE DefaultViews
         /\ log' = log
         /\ InspirationLoop(0, views', <<>>)

\* AfterSingleImage without the loop's try/catch: a rejection leaves the function.
AfterSingleImage_noCatch(resp, out) ==
    /\ log' = Append(log, Answered(resp))
    /\ UNCHANGED <<views, references>>
    /\ IF out.kind = "rejected"
       THEN /\ result' = out
            /\ pc' = Settled
            /\ LeaveRetry
            /\ UNCHANGED <<i, ref, results>>
       ELSE InspirationLoop(i + 1, views,
                            IF Truthy(out.value) THEN Append(results, out.value)
                            ELSE results)

\* `await generateSingleImage(...)` has settled inside the loop's try block.
AfterSingleImage(resp, out) ==
    /\ log' = Append(log, Answered(resp))
    /\ UNCHANGED <<views, references>>
    /\ InspirationLoop(i + 1, views,
                       IF out.kind = "resolved" /\ Truthy(out.value)
                       THEN Append(results, out.value)
                       ELSE results)

\* What the service's final answer for a style held: its first image, or none.
Produced(resp) ==
    IF Answered(resp) \in Images THEN Answered(resp) ELSE "noImage"

\* `if (image) results.push({ style, image })`.
surprisePush_always(rs, style, image) == Append(rs, [style |-> style, image |-> image])

surprisePush(rs, style, image) ==
    IF Truthy(image) THEN Append(rs, [style |-> style, image |-> image]) ELSE rs

\* The loop of generateSurpriseImages from its test `i < styles.length` with
\* index k, list ss and results rs: either the next style's reference lookup is
\* started (after the fixed wait, when k > 0) or the function returns.
SurpriseLoop(k, ss, rs) ==
    /\ i' = k
    /\ results' = rs
    /\ ref' = EmptyString
    /\ IF k < Len(ss)
       THEN /\ result' = result
            /\ IF waitsBefore(k)
               THEN LeaveRetry /\ pc' = "delay"
               ELSE EnterRetry("refs", DefaultRetries, DefaultBaseDelay)
       ELSE /\ result' = Resolved(rs)
            /\ LeaveRetry
            /\ pc' = Settled

CallGenerateSurpriseImages ==
    /\ pc = "idle"
    /\ \E ss \in StyleInputs :
          /\ fn' = "generateSurpriseImages"
          /\ styles' = ss
          /\ count' = SurpriseReferenceCount
          /\ SurpriseLoop(0, ss, <<>>)
    /\ UNCHANGED <<script, customViews, views, references, fixedWaits, log>>
    /\ UNCHANGED <<appVars, pageVars, lookup>>

\* AfterSurpriseReferences giving up on a style whose lookup found nothing.
AfterSurpriseReferences_skipsEmpty(out) ==
    IF out.kind = "rejected" \/ out.value[1] = EmptyString
    THEN /\ log' = Append(log, "lookupError")
         /\ UNCHANGED <<views, references>>
         /\ SurpriseLoop(i + 1, styles, results)
    ELSE /\ ref' = out.value[1]
         /\ EnterRetry("image", DefaultRetries, DefaultBaseDelay)
         /\ UNCHANGED <<result, views, references, i, results, log>>

\* `const refs = await getRealWorldReferences(style, ..., 1)` has settled inside
\* the loop's try block: generateSingleImage is called with refs[0].
AfterSurpriseReferences(out) ==
    IF out.kind = "rejected"
    THEN /\ log' = Append(log, "lookupError")
         /\ UNCHANGED <<views, references>>
         /\ SurpriseLoop(i + 1, styles, results)
    ELSE /\ ref' = out.value[1]
         /\ EnterRetry("image", DefaultRetries, DefaultBaseDelay)
         /\ UNCHANGED <<result, views, references, i, results, log>>

\* AfterSurpriseImage without the loop's try/catch: a rejection leaves the function.
AfterSurpriseImage_noCatch(resp, out) ==
    /\ log' = Append(log, Produced(resp))
    /\ UNCHANGED <<views, references>>
    /\ IF out.kind = "rejected"
       THEN /\ result' = out
            /\ pc' = Settled
            /\ LeaveRetry
            /\ UNCHANGED <<i, ref, results>>
       ELSE SurpriseLoop(i + 1, styles, surprisePush(results, styles[i + 1], out.value))

\* `const image = await generateSingleImage(...)` has settled inside the loop's
\* try block.
AfterSurpriseImage(resp, out) ==
    /\ log' = Append(log, Produced(resp))
    /\ UNCHANGED <<views, references>>
    /\ SurpriseLoop(i + 1, styles,
                    IF out.kind = "resolved"
                    THEN surprisePush(results, styles[i + 1], out.value)
                    ELSE results)

\* retryOperation settles with `out` after the answer `resp`.
\* The surprise loop's reference lookup has been answered, or has failed.
lookupAnswer(resp) ==
    IF fn = "generateSurpriseImages" /\ site = "refs"
    THEN IF resp.kind = "ok" THEN "answered" ELSE "failed"
    ELSE "none"

Settle(resp, out) ==
    /\ UNCHANGED <<fn, script, count, customViews, fixedWaits, styles>>
    /\ UNCHANGED <<appVars, pageVars>>
    /\ lookup' = lookupAnswer(resp)
    /\ CASE fn = "generateInspirationImages" ->
              IF site = "refs" THEN AfterReferences(out) ELSE AfterSingleImage(resp, out)
         [] fn = "generateSurpriseImages" ->
              IF site = "refs" THEN AfterSurpriseReferences(out)
              ELSE AfterSurpriseImage(resp, out)
         [] OTHER ->
              /\ result' = IF fn = "generateStepImage" THEN stepImageCatch(out) ELSE out
              /\ pc' = Settled
              /\ lastSvc' = resp
              /\ inflight' = Outstanding
              /\ UNCHANGED <<site, retries, baseDelay, initRetries, initDelay,
                             invocations, waits, warnings, views, references, i, ref,
                             results, log, requested, ops>>

\* `return await operation()`: the operation returned.
OperationReturns ==
    /\ pc = "inflight"
    /\ \E resp \in Responses(site, invocations) :
          \E o \in Outcomes(site, resp) :
             /\ o.kind = "return"
             /\ Settle(resp, Resolved(o.value))

\* The operation threw, retries remain and the error is a rate-limit error:
\* the warning is written and wait(baseDelay) is started.
OperationThrowsRetried ==
    /\ pc = "inflight"
    /\ \E resp \in Responses(site, invocations) :
          \E o \in Outcomes(site, resp) :
             /\ o.kind = "throw"
             /\ ShouldRetry(retries, o.error)
             /\ lastSvc' = resp
    /\ warnings' = warn(warnings)
    /\ pc' = "backoff"
    /\ inflight' = Outstanding
    /\ UNCHANGED <<fn, site, retries, baseDelay, initRetries, initDelay, invocations,
                   waits, script, result, count, customViews, views, references, i,
                   ref, results, fixedWaits, log, styles, requested, ops>>
    /\ UNCHANGED <<appVars, pageVars, lookup>>

\* The operation threw and the error is thrown on.
OperationThrowsRethrown ==
    /\ pc = "inflight"
    /\ \E resp \in Responses(site, invocations) :
          \E o \in Outcomes(site, resp) :
             /\ o.kind = "throw"
             /\ ~ShouldRetry(retries, o.error)
             /\ Settle(resp, Rejected(o.error))

\* wait(baseDelay) is over: retryOperation(operation, retries - 1, baseDelay * 2)
\* invokes the operation again.
BackoffElapsed ==
    /\ pc = "backoff"
    /\ waits' = Append(waits, baseDelay)
    /\ retries' = NextRetries(retries)
    /\ baseDelay' = NextDelay(baseDelay)
    /\ invocations' = invocations + 1
    /\ lastSvc' = NoResponse
    /\ pc' = "inflight"
    /\ inflight' = Outstanding + 1
    /\ UNCHANGED <<fn, site, initRetries, initDelay, warnings, script, result, count,
                   customViews, views, references, i, ref, results, fixedWaits, log,
                   styles, requested, ops>>
    /\ UNCHANGED <<appVars, pageVars, lookup>>

\* The loop's wait(2000) is over: generateSingleImage is called for view i.
InspirationDelayElapsed ==
    /\ pc = "delay"
    /\ fn = "generateInspirationImages"
    /\ fixedWaits' = Append(fixedWaits, InspirationDelay)
    /\ EnterRetry("image", DefaultRetries, DefaultBaseDelay)
    /\ UNCHANGED <<fn, script, result, count, customViews, views, references, i, ref,
                   results, log, styles>>
    /\ UNCHANGED <<appVars, pageVars, lookup>>

\* The loop's wait(3000) is over: getRealWorldReferences is called for style i.
SurpriseDelayElapsed ==
    /\ pc = "delay"
    /\ fn = "generateSurpriseImages"
    /\ fixedWaits' = Append(fixedWaits, SurpriseDelay)
    /\ EnterRetry("refs", DefaultRetries, DefaultBaseDelay)
    /\ UNCHANGED <<fn, script, result, count, customViews, views, references, i, ref,
                   results, log, styles>>
    /\ UNCHANGED <<appVars, pageVars, lookup>>

CallGenerateProjectPlan ==
    /\ pc = "idle"
    /\ fn' = "generateProjectPlan"
    /\ EnterRetry("plan", DefaultRetries, DefaultBaseDelay)
    /\ UNCHANGED <<script, result, count, customViews, views, references, i, ref,
                   results, fixedWaits, log, styles>>
    /\ UNCHANGED <<appVars, pageVars, lookup>>

CallGenerateSurpriseAnalysis ==
    /\ pc = "idle"
    /\ fn' = "generateSurpriseAnalysis"
    /\ EnterRetry("analysis", DefaultRetries, DefaultBaseDelay)
    /\ UNCHANGED <<script, result, count, customViews, views, references, i, ref,
                   results, fixedWaits, log, styles>>
    /\ UNCHANGED <<appVars, pageVars, lookup>>

CallAnalyzeStyleFromImage ==
    /\ pc = "idle"
    /\ fn' = "analyzeStyleFromImage"
    /\ EnterRetry("style", DefaultRetries, DefaultBaseDelay)
    /\ UNCHANGED <<script, result, count, customViews, views, references, i, ref,
                   results, fixedWaits, log, styles>>
    /\ UNCHANGED <<appVars, pageVars, lookup>>

CallSendProjectChat ==
    /\ pc = "idle"
    /\ fn' = "sendProjectChat"
    /\ EnterRetry("chat", DefaultRetries, DefaultBaseDelay)
    /\ UNCHANGED <<script, result, count, customViews, views, references, i, ref,
                   results, fixedWaits, log, styles>>
    /\ UNCHANGED <<appVars, pageVars, lookup>>

\* generateFullPlan(style, initialImage) up to its first await: the early
\* return without a selected image, or setStep('analyzing'),
\* setErrorMessage('') and the call of generateProjectPlan.
CallGenerateFullPlan ==
    /\ pc = "idle"
    /\ \E in \in FullPlanInputs :
          /\ selectedImage' = in.selectedImage
          /\ initialImage' = in.initialImage
          /\ selectedStyle' = in.selectedStyle
          /\ fullPlanStyle' = in.style
          /\ before' = in.before
          /\ resultData' = in.before.resultData
          /\ IF ~Truthy(in.selectedImage)
             THEN /\ fn' = "generateFullPlan"
                  /\ caller' = "none"
                  /\ step' = in.before.step
                  /\ errorMessage' = errorMessage
                  /\ result' = Resolved(Null)
                  /\ pc' = "done"
                  /\ UNCHANGED <<site, retries, baseDelay, initRetries, initDelay,
                                 invocations, waits, warnings, lastSvc, inflight,
                                 requested, ops>>
             ELSE /\ fn' = "generateProjectPlan"
                  /\ caller' = "generateFullPlan"
                  /\ step' = "analyzing"
                  /\ errorMessage' = <<>>
                  /\ result' = result
                  /\ EnterRetry("plan", DefaultRetries, DefaultBaseDelay)
    /\ UNCHANGED <<script, count, customViews, views, references, i, ref, results,
                   fixedWaits, log, styles, plan>>
    /\ UNCHANGED <<pageVars, lookup, inspirationImage>>

\* `customViews` as generateFullPlan passes it: two additional views next to
\* an initial image, none (the three default views) without one.
fullPlanViews_alwaysDefault(img) == [given |-> FALSE, list |-> <<>>]

fullPlanViews(img) ==
    IF Truthy(img) THEN [given |-> TRUE, list |-> AdditionalViews]
    ELSE [given |-> FALSE, list |-> <<>>]

\* generateFullPlan's catch block.
fullPlanCatch_keepsStep(e) ==
    /\ errorMessage' = IF e.message # <<>> THEN e.message ELSE MsgSomethingWentWrong
    /\ step' = step
    /\ resultData' = resultData

fullPlanCatch(e) ==
    /\ errorMessage' = IF e.message # <<>> THEN e.message ELSE MsgSomethingWentWrong
    /\ step' = "error"
    /\ resultData' = resultData

\* `const plan = await generateProjectPlan(...)` has settled: the catch block
\* runs, or generateInspirationImages is called.
FullPlanAfterPlan ==
    /\ pc = "returned"
    /\ caller = "generateFullPlan"
    /\ fn = "generateProjectPlan"
    /\ IF result.kind = "rejected"
       THEN /\ fullPlanCatch(result.error)
            /\ fn' = "generateFullPlan"
            /\ result' = Resolved(Null)
            /\ pc' = "done"
            /\ UNCHANGED <<site, retries, baseDelay, initRetries, initDelay,
                           invocations, waits, warnings, lastSvc, inflight, requested, ops,
                           plan, count, customViews>>
       ELSE /\ plan' = result.value
            /\ fn' = "generateInspirationImages"
            /\ customViews' = fullPlanViews(initialImage)
            /\ count' = ReferenceCount
            /\ result' = Pending
            /\ EnterRetry("refs", DefaultRetries, DefaultBaseDelay)
            /\ UNCHANGED <<step, resultData, errorMessage>>
    /\ UNCHANGED <<script, views, references, i, ref, results, fixedWaits, log, styles,
                   caller, selectedImage, initialImage, before>>
    /\ UNCHANGED <<pageVars, lookup, inspirationImage, selectedStyle, fullPlanStyle>>

\* `images = [initialImage, ...additionalImages]` or the generated images alone.
fullPlanImages_dropsGenerated(img, generated) ==
    IF Truthy(img) THEN <<img>> ELSE <<>>

fullPlanImages(img, generated) ==
    IF Truthy(img) THEN <<img>> \o generated ELSE generated

\* `await generateInspirationImages(...)` has settled: setResultData and
\* setStep('results'), or the catch block.
FullPlanAfterImages ==
    /\ pc = "returned"
    /\ caller = "generateFullPlan"
    /\ fn = "generateInspirationImages"
    /\ IF result.kind = "rejected"
       THEN fullPlanCatch(result.error)
       ELSE /\ resultData' = StandardResult(plan, fullPlanImages(initialImage, result.value))
            /\ step' = "results"
            /\ errorMessage' = errorMessage
    /\ fn' = "generateFullPlan"
    /\ result' = Resolved(Null)
    /\ pc' = "done"
    /\ UNCHANGED <<site, retries, baseDelay, initRetries, initDelay, invocations, waits,
                   warnings, lastSvc, inflight, requested, ops, script, count, customViews,
                   views, references, i, ref, results, fixedWaits, log, styles, caller,
                   selectedImage, initialImage, plan, before>>
    /\ UNCHANGED <<pageVars, lookup, inspirationImage, selectedStyle, fullPlanStyle>>

---------------------------------------------------------------------------
(* handleSubmit (App.tsx 333-367).                                         *)

\* error.message || "Failed to analyze inspiration image."
MsgFailedToAnalyze ==
    <<"F","a","i","l","e","d"," ","t","o"," ","a","n","a","l","y","z","e"," ",
      "i","n","s","p","i","r","a","t","i","o","n"," ","i","m","a","g","e",
      ".">>

\* The TypeError of `styles.length` for an undefined `styles`; its text is
\* chosen by the JavaScript engine.
MsgCannotReadLength ==
    <<"C","a","n","n","o","t"," ","r","e","a","d"," ","p","r","o","p","e","r",
      "t","i","e","s"," ","o","f"," ","u","n","d","e","f","i","n","e","d"," ",
      "(","r","e","a","d","i","n","g"," ","'","l","e","n","g","t","h","'",
      ")">>
MsgStylesUndefined ==
    <<"s","t","y","l","e","s"," ","i","s"," ","u","n","d","e","f","i","n","e",
      "d">>
TypeErrorMessages == { MsgCannotReadLength, MsgStylesUndefined }

\* handleSubmit is clicked on the upload page: without a photo, with an
\* inspiration image, with Surprise Me, or with a preset style.
SubmitInputs ==
    { [selectedImage |-> Null, inspirationImage |-> Null, selectedStyle |-> Transitional],
      [selectedImage |-> "photo", inspirationImage |-> "inspiration",
       selectedStyle |-> NoStyle],
      [selectedImage |-> "photo", inspirationImage |-> Null, selectedStyle |-> SurpriseMe],
      [selectedImage |-> "photo", inspirationImage |-> Null,
       selectedStyle |-> Transitional] }

\* handleSubmit's branches in the order in which the code tries them:
\* `if (!selectedImage) return`, `if (inspirationImage)`,
\* `if (selectedStyle === StyleOption.SurpriseMe)`, else generateFullPlan.
submitRoute_ignoresInspiration(img, insp, st) ==
    CASE ~Truthy(img) -> "none"
      [] st = SurpriseMe -> "surprise"
      [] OTHER -> "plan"

submitRoute(img, insp, st) ==
    CASE ~Truthy(img) -> "none"
      [] Truthy(insp) -> "inspiration"
      [] st = SurpriseMe -> "surprise"
      [] OTHER -> "plan"

\* handleSubmit up to its first await.
CallHandleSubmit ==
    /\ pc = "idle"
    /\ \E in \in SubmitInputs :
          /\ selectedImage' = in.selectedImage
          /\ inspirationImage' = in.inspirationImage
          /\ selectedStyle' = in.selectedStyle
          /\ CASE submitRoute(in.selectedImage, in.inspirationImage,
                              in.selectedStyle) = "none" ->
                    /\ fn' = "handleSubmit"
                    /\ caller' = "none"
                    /\ pc' = "done"
                    /\ result' = Resolved(Null)
                    /\ UNCHANGED <<step, errorMessage, site, retries, baseDelay,
                                   initRetries, initDelay, invocations, waits, warnings,
                                   lastSvc, inflight, requested, ops, fullPlanStyle>>
               [] submitRoute(in.selectedImage, in.inspirationImage,
                              in.selectedStyle) = "inspiration" ->
                    /\ step' = "analyzing"
                    /\ fullPlanStyle' = fullPlanStyle
                    /\ errorMessage' = <<>>
                    /\ fn' = "analyzeStyleFromImage"
                    /\ caller' = "handleSubmit"
                    /\ result' = result
                    /\ EnterRetry("style", DefaultRetries, DefaultBaseDelay)
               [] submitRoute(in.selectedImage, in.inspirationImage,
                              in.selectedStyle) = "surprise" ->
                    /\ step' = "analyzing"
                    /\ errorMessage' = <<>>
                    /\ fn' = "generateSurpriseAnalysis"
                    /\ caller' = "handleSubmit"
                    /\ result' = result
                    /\ fullPlanStyle' = fullPlanStyle
                    /\ EnterRetry("analysis", DefaultRetries, DefaultBaseDelay)
               [] OTHER ->
                    /\ step' = "analyzing"
                    /\ fullPlanStyle' = in.selectedStyle
                    /\ errorMessage' = <<>>
                    /\ fn' = "generateProjectPlan"
                    /\ caller' = "generateFullPlan"
                    /\ result' = result
                    /\ EnterRetry("plan", DefaultRetries, DefaultBaseDelay)
    /\ UNCHANGED <<script, count, customViews, views, references, i, ref, results,
                   fixedWaits, log, styles, plan, initialImage, before, resultData>>
    /\ UNCHANGED <<pageVars, lookup>>

\* The catch block of the inspiration path.
submitStyleCatch_keepsStep(e) ==
    /\ errorMessage' = IF e.message # <<>> THEN e.message ELSE MsgFailedToAnalyze
    /\ step' = step

submitStyleCatch(e) ==
    /\ errorMessage' = IF e.message # <<>> THEN e.message ELSE MsgFailedToAnalyze
    /\ step' = "error"

\* The catch block of the surprise path: setErrorMessage(error.message).
surpriseCatch(e) ==
    /\ errorMessage' = e.message
    /\ step' = "error"

\* `const derivedStyle = await analyzeStyleFromImage(...)` has settled: the
\* catch block runs, or setSelectedStyle(derivedStyle) and generateFullPlan
\* up to its first await.
SubmitAfterStyle ==
    /\ pc = "returned"
    /\ caller = "handleSubmit"
    /\ fn = "analyzeStyleFromImage"
    /\ IF result.kind = "rejected"
       THEN /\ submitStyleCatch(result.error)
            /\ fn' = "handleSubmit"
            /\ result' = Resolved(Null)
            /\ pc' = "done"
            /\ UNCHANGED <<site, retries, baseDelay, initRetries, initDelay,
                           invocations, waits, warnings, lastSvc, inflight, requested,
                           ops, caller, selectedStyle, fullPlanStyle,
                           before>>
       ELSE /\ selectedStyle' = result.value
            /\ fullPlanStyle' = result.value
            /\ before' = [step |-> step, resultData |-> resultData]
            /\ step' = "analyzing"
            /\ errorMessage' = <<>>
            /\ fn' = "generateProjectPlan"
            /\ caller' = "generateFullPlan"
            /\ result' = Pending
            /\ EnterRetry("plan", DefaultRetries, DefaultBaseDelay)
    /\ UNCHANGED <<script, count, customViews, views, references, i, ref, results,
                   fixedWaits, log, styles, plan, initialImage, resultData,
                   selectedImage, inspirationImage>>
    /\ UNCHANGED <<pageVars, lookup>>

\* `const analysis = await generateSurpriseAnalysis(...)` has settled: the
\* catch block runs, or generateSurpriseImages(analysis.styles, ...) is
\* called with the list the analysis holds (a TypeError without one).
SubmitAfterAnalysis ==
    /\ pc = "returned"
    /\ caller = "handleSubmit"
    /\ fn = "generateSurpriseAnalysis"
    /\ IF result.kind = "rejected" \/ "styles" \notin result.value.fields
       THEN /\ IF result.kind = "rejected"
               THEN surpriseCatch(result.error)
               ELSE \E msg \in TypeErrorMessages : surpriseCatch(NewError(msg, 0))
            /\ fn' = "handleSubmit"
            /\ result' = Resolved(Null)
            /\ pc' = "done"
            /\ UNCHANGED <<site, retries, baseDelay, initRetries, initDelay,
                           invocations, waits, warnings, lastSvc, inflight, requested,
                           ops, styles, count, i, ref, results>>
       ELSE /\ \E ss \in StyleInputs :
                  /\ styles' = ss
                  /\ SurpriseLoop(0, ss, <<>>)
            /\ fn' = "generateSurpriseImages"
            /\ count' = SurpriseReferenceCount
            /\ UNCHANGED <<step, errorMessage>>
    /\ UNCHANGED <<script, customViews, views, references, fixedWaits, log, plan,
                   initialImage, before, resultData, caller, selectedImage,
                   inspirationImage, selectedStyle, fullPlanStyle>>
    /\ UNCHANGED <<pageVars, lookup>>

\* `const suggestions = await generateSurpriseImages(...)` has settled:
\* setResultData and setStep('results'), or the catch block.
SubmitAfterSurpriseImages ==
    /\ pc = "returned"
    /\ caller = "handleSubmit"
    /\ fn = "generateSurpriseImages"
    /\ IF result.kind = "rejected"
       THEN surpriseCatch(result.error) /\ resultData' = resultData
       ELSE /\ resultData' = [type |-> "surprise", itemDescription |-> "item",
                              suggestions |-> result.value]
            /\ step' = "results"
            /\ errorMessage' = errorMessage
    /\ fn' = "handleSubmit"
    /\ result' = Resolved(Null)
    /\ pc' = "done"
    /\ UNCHANGED <<site, retries, baseDelay, initRetries, initDelay, invocations, waits,
                   warnings, lastSvc, inflight, requested, ops, script, count,
                   customViews, views, references, i, ref, results, fixedWaits, log,
                   styles, caller, selectedImage, initialImage, plan, before,
                   inspirationImage, selectedStyle, fullPlanStyle>>
    /\ UNCHANGED <<pageVars, lookup>>

Next ==
    \/ CallRetryOperation
    \/ CallGenerateSingleImage
    \/ CallGenerateStepImage
    \/ CallGetRealWorldReferences
    \/ CallGenerateInspirationImages
    \/ OperationReturns
    \/ OperationThrowsRetried
    \/ OperationThrowsRethrown
    \/ BackoffElapsed
    \/ InspirationDelayElapsed
    \/ CallGenerateSurpriseImages
    \/ SurpriseDelayElapsed
    \/ CallGenerateProjectPlan
    \/ CallGenerateSurpriseAnalysis
    \/ CallSendProjectChat
    \/ CallAnalyzeStyleFromImage
    \/ CallGenerateFullPlan
    \/ FullPlanAfterPlan
    \/ FullPlanAfterImages
    \/ CallHandleSubmit
    \/ SubmitAfterStyle
    \/ SubmitAfterAnalysis
    \/ SubmitAfterSurpriseImages

Spec == Init /\ [][Next]_vars

\* A generation started by a handler of the App, and what the event loop then
\* does without the user: the service answers or fails, a timer runs out, a
\* function whose awaited promise has settled is resumed.
ChainStep ==
    \/ OperationReturns
    \/ OperationThrowsRetried
    \/ OperationThrowsRethrown
    \/ BackoffElapsed
    \/ InspirationDelayElapsed
    \/ SurpriseDelayElapsed
    \/ FullPlanAfterPlan
    \/ FullPlanAfterImages
    \/ SubmitAfterStyle
    \/ SubmitAfterAnalysis
    \/ SubmitAfterSurpriseImages

NextGeneration ==
    \/ CallGenerateFullPlan
    \/ CallHandleSubmit
    \/ ChainStep

\* Every service call returns or fails, every timer fires and every
\* continuation is run: the chain's next step is taken when there is one.
SpecGeneration == Init /\ [][NextGeneration]_vars /\ WF_vars(ChainStep)

---------------------------------------------------------------------------
(* The page as a whole (App.tsx): the handlers start generation chains,    *)
(* the results page mounts one StepIllustration per image placeholder and  *)
(* the ChatWidget, and each of them talks to the service on its own.  A    *)
(* chain is followed request by request (each answered request is followed *)
(* by a wait, by the chain's next request, or by the chain's end); nothing *)
(* is cancelled, and a request of a component that has been unmounted is   *)
(* no longer followed.                                                     *)

\* The results page of a plan is shown: its illustrations and chat are mounted.
PlanPageShown == step = "results" /\ resultData.type = "standard"

\* The page under `step` and `resultData` changes to (st, rd): the components
\* of a plan's results page are unmounted when it is left, and the
\* illustrations of a newly shown plan start their effect, k of them.
Render(st, rd, k) ==
    /\ step' = st
    /\ resultData' = rd
    /\ IF st = "results" /\ rd.type = "standard"
       THEN /\ IF rd # resultData \/ ~PlanPageShown
               THEN /\ illus' = [j \in IllustrationIds |->
                                    IF j <= k THEN "delay" ELSE "unmounted"]
                    /\ flyingIllus' = [j \in IllustrationIds |-> 0]
               ELSE UNCHANGED <<illus, flyingIllus>>
            /\ IF PlanPageShown
               THEN UNCHANGED <<isSending, flyingChat>>
               ELSE isSending' = FALSE /\ flyingChat' = 0
       ELSE /\ illus' = [j \in IllustrationIds |-> "unmounted"]
            /\ flyingIllus' = [j \in IllustrationIds |-> 0]
            /\ isSending' = FALSE
            /\ flyingChat' = 0

\* No chain is told that a later one was started or that the page was reset:
\* what chain c sets at its end comes from the current chain or from a stale one.
writtenBy(c) == IF c = current THEN "current" ELSE "stale"

\* A chain is started: its first service request is issued at once.
StartChain(kind) ==
    \E c \in ChainIds :
       /\ chains[c] = "free"
       /\ \A d \in ChainIds : d < c => chains[d] # "free"
       /\ chains' = [chains EXCEPT ![c] = kind]
       /\ flyingChain' = [flyingChain EXCEPT ![c] = @ + 1]
       /\ current' = c

\* handleImageUpload: a photo is chosen on the upload page.
HandleImageUpload ==
    /\ step = "upload"
    /\ selectedImage' = "photo"
    /\ UNCHANGED <<step, resultData, errorMessage, pageVars, callVars, formVars>>

\* handleSubmit (App.tsx 333-367): with the Surprise Me style the surprise
\* chain (analysis, then the surprise images), otherwise the plan chain
\* (style analysis when an inspiration image is set, then generateFullPlan).
HandleSubmit ==
    /\ step = "upload"
    /\ Truthy(selectedImage)
    /\ \E kind \in {"plan", "surprise"} : StartChain(kind)
    /\ errorMessage' = <<>>
    /\ Render("analyzing", resultData, 0)
    /\ pageFrom' = "user"
    /\ UNCHANGED <<selectedImage, callVars, formVars>>

\* generateFullPlan called from the results page: a style button of a plan's
\* page (App.tsx 521) or handleSurpriseSelection (App.tsx 369-371).
GenerateFullPlanFromResults ==
    /\ step = "results"
    /\ resultData # NoResult
    /\ Truthy(selectedImage)
    /\ StartChain("plan")
    /\ errorMessage' = <<>>
    /\ Render("analyzing", resultData, 0)
    /\ pageFrom' = "user"
    /\ UNCHANGED <<selectedImage, callVars, formVars>>

\* resetApp's setters next to setStep('upload') and setResultData(null).
resetAppSetters_keepStyle ==
    /\ selectedImage' = Null
    /\ inspirationImage' = Null
    /\ selectedStyle' = selectedStyle

resetAppSetters ==
    /\ selectedImage' = Null
    /\ inspirationImage' = Null
    /\ selectedStyle' = Transitional

\* resetApp (App.tsx 373-379), behind the logo on every page.
ResetApp ==
    /\ resetAppSetters
    /\ Render("upload", NoResult, 0)
    /\ current' = 0
    /\ pageFrom' = "user"
    /\ UNCHANGED <<errorMessage, selectedCategory, chains, flyingChain, callVars>>

\* The Try Again button of the error page: setStep('upload').
TryAgain ==
    /\ step = "error"
    /\ Render("upload", resultData, 0)
    /\ pageFrom' = "user"
    /\ UNCHANGED <<selectedImage, errorMessage, chains, flyingChain, callVars, formVars, current>>

\* A chain's request was answered and the chain waits: the retrier's backoff,
\* or the fixed wait before the next item of a batch.
ChainWaits ==
    \E c \in ChainIds :
       /\ chains[c] # "free"
       /\ flyingChain[c] > 0
       /\ flyingChain' = [flyingChain EXCEPT ![c] = @ - 1]
       /\ UNCHANGED <<step, resultData, errorMessage, selectedImage, chains, illus,
                      isSending, flyingIllus, flyingChat, callVars, formVars, current,
                      pageFrom>>

\* A chain's wait is over, or its answered request is followed at once by its
\* next one: the chain issues a request.
ChainRequests ==
    \E c \in ChainIds :
       /\ chains[c] # "free"
       /\ flyingChain[c] = 0
       /\ flyingChain' = [flyingChain EXCEPT ![c] = @ + 1]
       /\ UNCHANGED <<step, resultData, errorMessage, selectedImage, chains, illus,
                      isSending, flyingIllus, flyingChat, callVars, formVars, current,
                      pageFrom>>

\* What a finished chain hands to setResultData: generateFullPlan the plan
\* and its images, handleSubmit's surprise path the suggestions.
chainResult_null(kind) == NoResult

chainResult(kind) == IF kind = "plan" THEN NewStandard ELSE PreviousSurprise

\* A chain's last request was answered and the chain ends well:
\* setResultData and setStep('results').
ChainSucceeds ==
    \E c \in ChainIds, k \in 0..MaxIllustrations :
       /\ chains[c] # "free"
       /\ flyingChain[c] > 0
       /\ flyingChain' = [flyingChain EXCEPT ![c] = @ - 1]
       /\ chains' = [chains EXCEPT ![c] = "free"]
       /\ Render("results", chainResult(chains[c]), k)
       /\ pageFrom' = writtenBy(c)
       /\ UNCHANGED <<errorMessage, selectedImage, callVars, formVars, current>>

\* A chain's request failed for good: the catch block's setErrorMessage and
\* setStep('error').
ChainFails ==
    \E c \in ChainIds, m \in FailureMessages :
       /\ chains[c] # "free"
       /\ flyingChain[c] > 0
       /\ flyingChain' = [flyingChain EXCEPT ![c] = @ - 1]
       /\ chains' = [chains EXCEPT ![c] = "free"]
       /\ errorMessage' = m
       /\ Render("error", resultData, 0)
       /\ pageFrom' = writtenBy(c)
       /\ UNCHANGED <<selectedImage, callVars, formVars, current>>

\* StepIllustration's effect after its random delay (App.tsx 54-57): still
\* mounted, it calls generateStepImage.
IllustrationRequests ==
    \E j \in IllustrationIds :
       /\ illus[j] = "delay"
       /\ illus' = [illus EXCEPT ![j] = "requesting"]
       /\ flyingIllus' = [flyingIllus EXCEPT ![j] = @ + 1]
       /\ UNCHANGED <<step, resultData, errorMessage, selectedImage, chains, isSending,
                      flyingChain, flyingChat, callVars, formVars, current,
                      pageFrom>>

\* generateStepImage's first request failed with a rate-limit error: the
\* single retry of retryOperation(..., 1, 3000) waits.
IllustrationBacksOff ==
    \E j \in IllustrationIds :
       /\ illus[j] = "requesting"
       /\ illus' = [illus EXCEPT ![j] = "backoff"]
       /\ flyingIllus' = [flyingIllus EXCEPT ![j] = @ - 1]
       /\ UNCHANGED <<step, resultData, errorMessage, selectedImage, chains, isSending,
                      flyingChain, flyingChat, callVars, formVars, current,
                      pageFrom>>

IllustrationRetries ==
    \E j \in IllustrationIds :
       /\ illus[j] = "backoff"
       /\ illus' = [illus EXCEPT ![j] = "retrying"]
       /\ flyingIllus' = [flyingIllus EXCEPT ![j] = @ + 1]
       /\ UNCHANGED <<step, resultData, errorMessage, selectedImage, chains, isSending,
                      flyingChain, flyingChat, callVars, formVars, current,
                      pageFrom>>

\* generateStepImage has settled (App.tsx 58-66): the image is shown, or the
\* component hides itself.
IllustrationSettles ==
    \E j \in IllustrationIds, outcome \in {"shown", "hidden"} :
       /\ illus[j] \in {"requesting", "retrying"}
       /\ illus' = [illus EXCEPT ![j] = outcome]
       /\ flyingIllus' = [flyingIllus EXCEPT ![j] = @ - 1]
       /\ UNCHANGED <<step, resultData, errorMessage, selectedImage, chains, isSending,
                      flyingChain, flyingChat, callVars, formVars, current,
                      pageFrom>>

\* handleSend's guard on isSending (App.tsx 120): `if (!input.trim() || isSending) return`.
canSend_always == TRUE

canSend == ~isSending

\* handleSend (App.tsx 119-125) with a non-empty input: the message is sent.
HandleSend ==
    /\ PlanPageShown
    /\ canSend
    /\ isSending' = TRUE
    /\ flyingChat' = flyingChat + 1
    /\ UNCHANGED <<step, resultData, errorMessage, selectedImage, chains, illus,
                   flyingChain, flyingIllus, callVars, formVars, current,
                      pageFrom>>

\* sendProjectChat's request failed with a rate-limit error: the retrier waits.
ChatBacksOff ==
    /\ isSending
    /\ flyingChat > 0
    /\ flyingChat' = flyingChat - 1
    /\ UNCHANGED <<step, resultData, errorMessage, selectedImage, chains, illus,
                   isSending, flyingChain, flyingIllus, callVars, formVars, current,
                      pageFrom>>

ChatRetries ==
    /\ isSending
    /\ flyingChat = 0
    /\ flyingChat' = flyingChat + 1
    /\ UNCHANGED <<step, resultData, errorMessage, selectedImage, chains, illus,
                   isSending, flyingChain, flyingIllus, callVars, formVars, current,
                      pageFrom>>

\* sendProjectChat has settled (App.tsx 126-134): the reply or the apology is
\* appended and `finally` clears isSending.
ChatSettles ==
    /\ isSending
    /\ flyingChat > 0
    /\ flyingChat' = flyingChat - 1
    /\ isSending' = FALSE
    /\ UNCHANGED <<step, resultData, errorMessage, selectedImage, chains, illus,
                   flyingChain, flyingIllus, callVars, formVars, current,
                      pageFrom>>

NextApp ==
    \/ HandleImageUpload
    \/ HandleSubmit
    \/ GenerateFullPlanFromResults
    \/ ResetApp
    \/ TryAgain
    \/ ChainWaits
    \/ ChainRequests
    \/ ChainSucceeds
    \/ ChainFails
    \/ IllustrationRequests
    \/ IllustrationBacksOff
    \/ IllustrationRetries
    \/ IllustrationSettles
    \/ HandleSend
    \/ ChatBacksOff
    \/ ChatRetries
    \/ ChatSettles

SpecApp == Init /\ [][NextApp]_vars

---------------------------------------------------------------------------
(* The upload form (App.tsx 271-305, 796-800, 839-897) next to the         *)
(* generation chains: what the user has chosen when a chain ends, when the *)
(* page is reset and when the error page is left.                          *)

\* handleInspirationUpload, handleInspirationDrop: the image read from the
\* file, and setSelectedStyle('').
HandleInspirationUpload ==
    /\ step = "upload"
    /\ inspirationImage' = "inspiration"
    /\ selectedStyle' = NoStyle
    /\ UNCHANGED <<step, resultData, errorMessage, selectedImage, selectedCategory,
                   chains, illus, isSending, flyingChain, flyingIllus, flyingChat,
                   current, pageFrom, callVars>>

\* clearInspirationImage.
ClearInspirationImage ==
    /\ step = "upload"
    /\ Truthy(inspirationImage)
    /\ inspirationImage' = Null
    /\ selectedStyle' = Transitional
    /\ UNCHANGED <<step, resultData, errorMessage, selectedImage, selectedCategory,
                   chains, illus, isSending, flyingChain, flyingIllus, flyingChat,
                   current, pageFrom, callVars>>

\* handleStyleSelect(style) of a preset card, and the Surprise Me card.
HandleStyleSelect ==
    /\ step = "upload"
    /\ \E st \in {Transitional, Japandi, SurpriseMe} : selectedStyle' = st
    /\ inspirationImage' = Null
    /\ UNCHANGED <<step, resultData, errorMessage, selectedImage, selectedCategory,
                   chains, illus, isSending, flyingChain, flyingIllus, flyingChat,
                   current, pageFrom, callVars>>

\* A category card: setSelectedCategory(cat).
SelectCategory ==
    /\ step = "upload"
    /\ \E cat \in {FurnitureFlipping, RoomRefresh} : selectedCategory' = cat
    /\ UNCHANGED <<step, resultData, errorMessage, selectedImage, inspirationImage,
                   selectedStyle, chains, illus, isSending, flyingChain, flyingIllus,
                   flyingChat, current, pageFrom, callVars>>

NextForm ==
    \/ HandleImageUpload
    \/ HandleInspirationUpload
    \/ ClearInspirationImage
    \/ HandleStyleSelect
    \/ SelectCategory
    \/ HandleSubmit
    \/ GenerateFullPlanFromResults
    \/ ResetApp
    \/ TryAgain
    \/ ChainWaits
    \/ ChainRequests
    \/ ChainSucceeds
    \/ ChainFails

SpecForm == Init /\ [][NextForm]_vars

---------------------------------------------------------------------------
(* Properties of retryOperation.                                           *)

RECURSIVE SumSeq(_)
SumSeq(q) == IF q = <<>> THEN 0 ELSE Head(q) + SumSeq(Tail(q))

\* The shape of the error the scripted operation throws at invocation n.
ScriptedShape(sc, n) == IF n <= sc.k THEN sc.failWith ELSE sc.final.shape

\* C1: when the operation given to retryOperation fails with a rate-limit
\* signal exactly k times, k at most `retries`, and then succeeds, the wrapper
\* resolves with the operation's value after invoking it exactly k + 1 times.
RetryResolvesAfterRateLimits ==
    ( /\ fn = "retryOperation"
      /\ pc = "done"
      /\ script.final.kind = "ok"
      /\ script.k <= initRetries
      /\ (script.k = 0 \/ RateLimitSignal(script.failWith)) )
    => ( /\ result = Resolved(script.final.body)
         /\ invocations = script.k + 1 )

RetryResolvesAfterRateLimitsWitness ==
    /\ fn = "retryOperation"
    /\ pc = "done"
    /\ script.final.kind = "ok"
    /\ script.k = DefaultRetries
    /\ initRetries = DefaultRetries
    /\ RateLimitSignal(script.failWith)
    /\ result.kind = "resolved"
    /\ invocations = DefaultRetries + 1

\* C2: the wait before the n-th retry is baseDelay * 2^(n-1); with the defaults
\* the waits are 2000, 4000, 8000 ms; when the budget is exhausted the waits
\* before the final failure add up to baseDelay * (2^retries - 1).
BackoffSchedule ==
    /\ \A n \in 1..Len(waits) : waits[n] = initDelay * 2^(n - 1)
    /\ ( /\ initRetries = 3
         /\ initDelay = 2000
         /\ Len(waits) = 3 ) => waits = <<2000, 4000, 8000>>
    /\ ( /\ pc = "done"
         /\ result.kind = "rejected"
         /\ Len(waits) = initRetries ) => SumSeq(waits) = initDelay * (2^initRetries - 1)

BackoffScheduleWitness ==
    /\ fn = "retryOperation"
    /\ pc = "done"
    /\ result.kind = "rejected"
    /\ initRetries = DefaultRetries
    /\ initDelay = DefaultBaseDelay
    /\ waits = <<2000, 4000, 8000>>

\* C3: an attempt that fails with an error carrying no rate-limit signal makes
\* the wrapper reject with that same error at once, whether it is the first
\* attempt or a later one: no warning and no wait follow it, and the operation
\* is not invoked again, even though retries remain.
NonRateLimitErrorPropagatesAtOnce ==
    ( /\ fn = "retryOperation"
      /\ lastSvc.kind = "error"
      /\ ~RateLimitSignal(lastSvc.err) )
    => ( /\ pc = "done"
         /\ result = Rejected(lastSvc.err)
         /\ lastSvc.err.attempt = invocations
         /\ Len(waits) = invocations - 1
         /\ warnings = invocations - 1 )

NonRateLimitErrorPropagatesAtOnceWitness ==
    /\ fn = "retryOperation"
    /\ pc = "done"
    /\ lastSvc.kind = "error"
    /\ ~RateLimitSignal(lastSvc.err)
    /\ invocations = 3
    /\ retries > 0
    /\ result = Rejected(lastSvc.err)

\* C4: when every attempt fails with a rate-limit signal the operation is
\* invoked exactly retries + 1 times, never more, and the wrapper rejects with
\* the error the last attempt threw.
ExhaustedBudgetRejectsWithLastError ==
    /\ invocations <= initRetries + 1
    /\ ( /\ fn = "retryOperation"
         /\ pc = "done"
         /\ RateLimitSignal(script.failWith)
         /\ \/ script.k >= initRetries + 1
            \/ (script.final.kind = "error" /\ RateLimitSignal(script.final.shape)) )
       => ( /\ invocations = initRetries + 1
            /\ result = Rejected(MkErr(ScriptedShape(script, initRetries + 1),
                                       initRetries + 1)) )

ExhaustedBudgetRejectsWithLastErrorWitness ==
    /\ fn = "retryOperation"
    /\ pc = "done"
    /\ initRetries = DefaultRetries
    /\ script.k = 2
    /\ RateLimitSignal(script.failWith)
    /\ script.final.kind = "error"
    /\ RateLimitSignal(script.final.shape)
    /\ script.final.shape # script.failWith
    /\ invocations = DefaultRetries + 1
    /\ result.kind = "rejected"
    /\ result.error.attempt = DefaultRetries + 1

---------------------------------------------------------------------------
(* Properties of single-image generation.                                  *)

\* C5: in generateSingleImage every service error carrying a rate-limit signal
\* (status 429, code 429, or a message containing '429' or 'quota') reaches the
\* retrier and is retried with backoff while retries remain; it is never
\* turned into a null result without a retry.
RateLimitedImageRequestIsRetried ==
    ( /\ fn = "generateSingleImage"
      /\ lastSvc.kind = "error"
      /\ RateLimitSignal(lastSvc.err)
      /\ retries > 0 )
    => ( /\ pc = "backoff"
         /\ result = Pending )

\* C6: in generateSingleImage a service error carrying no rate-limit signal
\* makes the call resolve with null: the failed request is the last one (the
\* only one when it is the first answer), nothing is waited for afterwards and
\* nothing is thrown to the caller.
NonRateLimitImageErrorYieldsNull ==
    ( /\ fn = "generateSingleImage"
      /\ lastSvc.kind = "error"
      /\ ~RateLimitSignal(lastSvc.err) )
    => ( /\ pc = "done"
         /\ result = Resolved(Null)
         /\ lastSvc.err.attempt = invocations
         /\ Len(waits) = invocations - 1
         /\ warnings = invocations - 1
         /\ (retries = initRetries => invocations = 1) )

NonRateLimitImageErrorYieldsNullWitness ==
    /\ fn = "generateSingleImage"
    /\ pc = "done"
    /\ lastSvc.kind = "error"
    /\ ~RateLimitSignal(lastSvc.err)
    /\ lastSvc.err.isError
    /\ invocations = 1
    /\ retries = DefaultRetries
    /\ result = Resolved(Null)

---------------------------------------------------------------------------
(* Properties of reference lookup.                                         *)

\* The chunks of a grounded search answer (none when there is no metadata).
ChunksOf(body) == IF body.candidates THEN body.chunks ELSE <<>>

\* The positions of the chunks that carry a usable (non-empty) web URI.
UsablePositions(ch) ==
    { k \in 1..Len(ch) : ch[k].web /\ ch[k].uri # "" }

\* The position of the p-th usable chunk.
NthUsable(ch, p) ==
    CHOOSE k \in UsablePositions(ch) :
        Cardinality({ j \in UsablePositions(ch) : j <= k }) = p

\* C7: reference lookup with count N returns exactly N entries; when the
\* grounding metadata holds m usable URLs the first min(m, N) entries are those
\* URLs in their original order and the remaining entries are empty strings.
ReferencesHaveExactlyNEntries ==
    ( /\ fn = "getRealWorldReferences"
      /\ pc = "done" )
    => ( /\ result.kind = "resolved"
         /\ count \in {1, 3}
         /\ Len(result.value) = count
         /\ lastSvc.kind = "ok" =>
               LET ch == ChunksOf(lastSvc.body)
                   m == Cardinality(UsablePositions(ch))
                   kept == IF m < count THEN m ELSE count
               IN  \A p \in 1..count :
                      result.value[p] = IF p <= kept THEN ch[NthUsable(ch, p)].uri
                                        ELSE "" )

ReferencesHaveExactlyNEntriesWitness ==
    /\ fn = "getRealWorldReferences"
    /\ pc = "done"
    /\ count = 3
    /\ lastSvc.kind = "ok"
    /\ lastSvc.body.candidates
    /\ Len(lastSvc.body.chunks) = 4
    /\ UsablePositions(lastSvc.body.chunks) = {2, 4}
    /\ lastSvc.body.chunks[2].uri # lastSvc.body.chunks[4].uri
    /\ result = Resolved(<<lastSvc.body.chunks[2].uri, lastSvc.body.chunks[4].uri, "">>)

\* C8: reference lookup never fails outward: whatever error the grounded
\* search call fails with, rate-limit or not, the lookup resolves, and its
\* result is then N empty strings.
ReferencesNeverReject ==
    /\ ( /\ fn = "getRealWorldReferences"
         /\ pc = "done" ) => result.kind = "resolved"
    /\ ( /\ fn = "getRealWorldReferences"
         /\ lastSvc.kind = "error" )
       => ( /\ pc = "done"
            /\ result.kind = "resolved"
            /\ Len(result.value) = count
            /\ \A p \in 1..count : result.value[p] = "" )

ReferencesNeverRejectWitness ==
    /\ fn = "getRealWorldReferences"
    /\ pc = "done"
    /\ count = 3
    /\ lastSvc.kind = "error"
    /\ lastSvc.err.status = 429
    /\ lastSvc.err.isError
    /\ result = Resolved(<<"", "", "">>)

\* C9: the grounded search call of reference lookup is subject to the backoff
\* retry policy: when it fails with a rate-limit signal and retries remain, the
\* retrier waits and invokes it again; the lookup falls back to empty
\* placeholders only after the retry budget is spent.
RateLimitedSearchIsRetried ==
    ( /\ fn = "getRealWorldReferences"
      /\ lastSvc.kind = "error"
      /\ RateLimitSignal(lastSvc.err)
      /\ retries > 0 )
    => ( /\ pc = "backoff"
         /\ result = Pending )

---------------------------------------------------------------------------
(* Properties of the inspiration image batch.                              *)

IsImage(x) == x \in Images

\* C10: generateInspirationImages isolates per-view failures: whatever views
\* fail or yield no image, the call resolves with exactly the images the
\* service sent for the other views, in the order of the views.
InspirationBatchIsolatesFailures ==
    ( /\ fn = "generateInspirationImages"
      /\ pc = "done" )
    => ( /\ result.kind = "resolved"
         /\ Len(log) = Len(views)
         /\ result.value = SelectSeq(log, IsImage) )

InspirationBatchIsolatesFailuresWitness ==
    /\ fn = "generateInspirationImages"
    /\ pc = "done"
    /\ Len(views) = 3
    /\ log = <<"imgA", "otherError", "imgB">>
    /\ result = Resolved(<<"imgA", "imgB">>)

---------------------------------------------------------------------------
(* Properties of the two batches.                                          *)

RECURSIVE SurprisePairs(_, _)
SurprisePairs(ss, lg) ==
    IF ss = <<>> \/ lg = <<>> THEN <<>>
    ELSE (IF IsImage(Head(lg))
          THEN << [style |-> Head(ss), image |-> Head(lg)] >>
          ELSE <<>>)
         \o SurprisePairs(Tail(ss), Tail(lg))

\* C11: generateSurpriseImages returns exactly one (style, image) pair for
\* each style whose image generation produced an image, each image paired
\* with the style that produced it, in the order of the styles; a style for
\* which no image was produced has no entry.
SurpriseBatchPairsSuccessesInOrder ==
    fn = "generateSurpriseImages"
    => ( /\ results = SurprisePairs(styles, log)
         /\ pc = "done" => ( /\ Len(log) = Len(styles)
                             /\ result = Resolved(results) ) )

SurpriseBatchPairsSuccessesInOrderWitness ==
    /\ fn = "generateSurpriseImages"
    /\ pc = "done"
    /\ Len(styles) = 5
    /\ log = <<"imgA", "imgB", "noImage", "imgB", "imgA">>
    /\ result = Resolved(<< [style |-> styles[1], image |-> "imgA"],
                            [style |-> styles[2], image |-> "imgB"],
                            [style |-> styles[4], image |-> "imgB"],
                            [style |-> styles[5], image |-> "imgA"] >>)

BatchFunctions == {"generateInspirationImages", "generateSurpriseImages"}

\* C12: within one call of generateInspirationImages or generateSurpriseImages
\* the requests to the service are strictly sequential: at most one request is
\* in flight at any time, retries included, and none while the call waits.
BatchRequestsAreSequential ==
    fn \in BatchFunctions
    => ( /\ inflight <= 1
         /\ pc # "inflight" => inflight = 0 )

BatchRequestsAreSequentialWitness ==
    /\ fn \in BatchFunctions
    /\ pc = "inflight"
    /\ site = "image"
    /\ i >= 1
    /\ invocations >= 2
    /\ inflight = 1

FixedDelay == IF fn = "generateInspirationImages" THEN InspirationDelay ELSE SurpriseDelay

Items == IF fn = "generateInspirationImages" THEN Len(views) ELSE Len(styles)

\* C13: in both batches the fixed delay (2000 ms between plan views, 3000 ms
\* between surprise styles) is waited before every item after the first and
\* never before the first, whatever the previous item's outcome: while item
\* number i (counted from 0) is processed exactly i fixed waits have been
\* made, and a finished batch of n >= 1 items has made exactly n - 1 (an empty
\* batch none).
FixedWaitBeforeEveryItemButTheFirst ==
    fn \in BatchFunctions
    => ( /\ \A k \in 1..Len(fixedWaits) : fixedWaits[k] = FixedDelay
         /\ pc \in {"inflight", "backoff"} => Len(fixedWaits) = i
         /\ pc = "delay" => ( i >= 1 /\ Len(fixedWaits) = i - 1 )
         /\ ( pc = "done" /\ Items >= 1 ) => Len(fixedWaits) = Items - 1
         /\ ( pc = "done" /\ Items = 0 ) => fixedWaits = <<>> )

FixedWaitBeforeEveryItemButTheFirstWitness ==
    /\ fn = "generateInspirationImages"
    /\ pc = "done"
    /\ Len(views) = 3
    /\ log = <<"rateLimitError", "noImage", "imgA">>
    /\ fixedWaits = <<InspirationDelay, InspirationDelay>>

---------------------------------------------------------------------------
(* Properties of generateFullPlan (App.tsx 306-331).                       *)

GeneratedImages == SelectSeq(log, IsImage)

\* C15: when plan generation fails (once the retrier has given up), the plan
\* operation is aborted: no reference lookup and no image request is issued,
\* resultData is the one the page held before, and step ends at 'error'.
PlanFailureAbortsPlanOperation ==
    ( /\ caller = "generateFullPlan"
      /\ plan = NoPlan )
    => ( /\ requested \cap {"refs", "image"} = {}
         /\ resultData = before.resultData
         /\ log = <<>>
         /\ pc = "done" => ( step = "error" /\ errorMessage # <<>> )
         /\ pc # "done" => step = "analyzing" )

PlanFailureAbortsPlanOperationWitness ==
    /\ fn = "generateFullPlan"
    /\ caller = "generateFullPlan"
    /\ pc = "done"
    /\ plan = NoPlan
    /\ invocations = 4
    /\ lastSvc.kind = "error"
    /\ lastSvc.err.status = 429
    /\ step = "error"
    /\ resultData = PreviousStandard
    /\ requested = {"plan"}

\* C16: when plan generation succeeds, generateFullPlan ends at 'results'
\* with that plan whatever happens in the image step (empty reference
\* lookup, views without an image, rate-limit failures that exhaust the
\* retries): the images that were produced are kept and the list may be empty.
PlanSuccessAlwaysEndsAtResults ==
    ( /\ caller = "generateFullPlan"
      /\ plan # NoPlan )
    => ( /\ plan \in { JSONparse(t) : t \in { u \in PlanTexts : WellFormedJSON(u) } }
         /\ pc = "done"
            => ( /\ step = "results"
                 /\ resultData.type = "standard"
                 /\ resultData.plan = plan
                 /\ \A k \in 1..Len(GeneratedImages) :
                       \E j \in 1..Len(resultData.inspirationImages) :
                          resultData.inspirationImages[j] = GeneratedImages[k]
                 /\ Len(resultData.inspirationImages) >= Len(GeneratedImages) )
         /\ pc # "done" => ( step = "analyzing" /\ resultData = before.resultData ) )

PlanSuccessAlwaysEndsAtResultsWitness ==
    /\ fn = "generateFullPlan"
    /\ pc = "done"
    /\ plan = JSONparse(CompletePlanText)
    /\ initialImage = Null
    /\ references = <<"", "", "">>
    /\ log = <<"rateLimitError", "otherError", "noImage">>
    /\ step = "results"
    /\ resultData = StandardResult(plan, <<>>)

\* C17: with an initial image generateFullPlan requests exactly the two
\* additional views and inspirationImages is the initial image followed by
\* the generated ones (1 to 3 entries); without one it requests the three
\* default views and inspirationImages holds the generated images only (0 to
\* 3 entries).
FullPlanViewsAndImages ==
    ( /\ caller = "generateFullPlan"
      /\ plan # NoPlan )
    => ( /\ Len(log) <= Len(views)
         /\ ( pc # "inflight" \/ site # "refs" )
            => views = IF Truthy(initialImage) THEN AdditionalViews ELSE DefaultViews
         /\ pc = "done"
            => ( /\ Len(log) = IF Truthy(initialImage) THEN 2 ELSE 3
                 /\ resultData.inspirationImages
                    = IF Truthy(initialImage)
                      THEN <<initialImage>> \o GeneratedImages
                      ELSE GeneratedImages
                 /\ Len(resultData.inspirationImages)
                    \in IF Truthy(initialImage) THEN 1..3 ELSE 0..3 ) )

FullPlanViewsAndImagesWitness ==
    /\ fn = "generateFullPlan"
    /\ pc = "done"
    /\ initialImage = "imgS"
    /\ views = AdditionalViews
    /\ log = <<"noImage", "imgB">>
    /\ resultData.type = "standard"
    /\ resultData.inspirationImages = <<"imgS", "imgB">>

---------------------------------------------------------------------------
(* Properties of the page as a whole.                                      *)

RECURSIVE SumTo(_, _)
SumTo(f, n) == IF n = 0 THEN 0 ELSE f[n] + SumTo(f, n - 1)

\* The service requests in flight, over the chains and the mounted components.
TotalFlying ==
    SumTo(flyingChain, MaxChains) + SumTo(flyingIllus, MaxIllustrations) + flyingChat

---------------------------------------------------------------------------
(* Properties of the text functions.                                       *)

\* C18: generateProjectPlan turns a well-formed response whose object holds
\* all eight fields into a ProjectPlan with those fields, and treats a
\* response whose object lacks a required field as a failure: the call
\* rejects.
PlanResponseIsValidated ==
    ( /\ fn = "generateProjectPlan"
      /\ pc \in {"done", "returned"}
      /\ lastSvc.kind = "ok"
      /\ ~textFalsy(lastSvc.body)
      /\ WellFormedJSON(lastSvc.body.text) )
    => IF PlanFields \subseteq JSONparse(lastSvc.body.text).fields
       THEN result = Resolved([type |-> "object", fields |-> PlanFields])
       ELSE result.kind = "rejected"

\* C19: when the service answers with empty text or with text that is not
\* JSON, generateProjectPlan and generateSurpriseAnalysis reject with that
\* failure at once: the service is not invoked again and no wait is made.
MalformedResponseIsHardFailure ==
    ( /\ fn \in {"generateProjectPlan", "generateSurpriseAnalysis"}
      /\ lastSvc.kind = "ok"
      /\ ( textFalsy(lastSvc.body) \/ ~WellFormedJSON(lastSvc.body.text) ) )
    => ( /\ pc \in {"done", "returned"}
         /\ result.kind = "rejected" )

\* C20: sendProjectChat resolves with the service's reply text when it is
\* non-empty and with the fixed fallback apology when the reply is empty; a
\* service error rejects the call once the retrier has given up.
ChatReplyOrFallback ==
    fn = "sendProjectChat"
    => ( /\ lastSvc.kind = "ok"
            => ( /\ pc = "done"
                 /\ result = Resolved(IF textFalsy(lastSvc.body)
                                       THEN FallbackApology
                                       ELSE lastSvc.body.text) )
         /\ lastSvc.kind = "error"
            => IF RateLimitSignal(lastSvc.err) /\ retries > 0
               THEN pc = "backoff" /\ result = Pending
               ELSE pc = "done" /\ result = Rejected(lastSvc.err) )

ChatReplyOrFallbackWitness ==
    /\ fn = "sendProjectChat"
    /\ pc = "done"
    /\ invocations = 2
    /\ lastSvc.kind = "ok"
    /\ lastSvc.body.hasText
    /\ lastSvc.body.text = <<>>
    /\ result = Resolved(FallbackApology)

---------------------------------------------------------------------------
\* C21: generateStepImage never rejects and has a single retry: the service
\* is invoked at most twice, the second time only after a failure carrying a
\* rate-limit signal and one completed wait of 3000 ms, and every final
\* failure (an error of any kind, or a response without an image part) makes
\* the function return null.
StepImageNeverRejects ==
    fn = "generateStepImage" =>
       /\ result.kind # "rejected"
       /\ invocations <= 2
       /\ pc = "backoff" =>
             /\ invocations = 1
             /\ lastSvc.kind = "error"
             /\ RateLimitSignal(lastSvc.err)
       /\ invocations = 2 => waits = <<3000>>
       /\ invocations = 1 => waits = <<>>
       /\ (pc = "done" /\ Answered(lastSvc) \notin Images) => result = Resolved(Null)

\* The step image is rate-limited twice: two invocations, one wait, null.
StepImageNeverRejectsWitness ==
    /\ fn = "generateStepImage"
    /\ pc = "done"
    /\ invocations = 2
    /\ waits = <<3000>>
    /\ lastSvc.kind = "error"
    /\ RateLimitSignal(lastSvc.err)
    /\ result = Resolved(Null)

---------------------------------------------------------------------------
\* C22: an image request that returns normally yields the data of the first
\* part, in response order, that carries non-empty inline data, and null when
\* the response has no candidate parts or no part carries inline data; this
\* holds for generateSingleImage and for generateStepImage.
ImageFunctions == {"generateSingleImage", "generateStepImage"}

FirstInlineImageIsReturned ==
    (fn \in ImageFunctions /\ pc = "done" /\ lastSvc.kind = "ok") =>
       /\ result.kind = "resolved"
       /\ IF Answered(lastSvc) \in Images
          THEN result.value = Answered(lastSvc)
          ELSE result.value = Null

\* Two image parts and one image in second place after an empty inline part.
FirstInlineImageIsReturnedWitness ==
    /\ fn \in ImageFunctions
    /\ pc = "done"
    /\ lastSvc.kind = "ok"
    /\ Len(lastSvc.body.parts) = 2
    /\ lastSvc.body.parts[1].inline
    /\ lastSvc.body.parts[2].data = "imgB"
    /\ result = Resolved("imgB")

---------------------------------------------------------------------------
\* C26: in retryOperation a retry is: failed attempt, warning written, wait of
\* the current delay completed, next attempt started.  While an attempt is in
\* flight and when the call has settled, warnings = waits = invocations - 1;
\* during a wait the warning for it has been written and the wait is not yet
\* counted.  A wait is entered exactly when the failed attempt carried a
\* rate-limit signal and the remaining retry count was above 0; with
\* retries = 0 the operation is invoked exactly once.
RetryOrderAndCounts ==
    (fn = "retryOperation") =>
       /\ invocations >= 1
       /\ retries = initRetries - (invocations - 1)
       /\ Len(waits) = invocations - 1
       /\ pc \in {"inflight", "done"} => warnings = Len(waits)
       /\ pc = "backoff" =>
             /\ warnings = Len(waits) + 1
             /\ lastSvc.kind = "error"
             /\ RateLimitSignal(lastSvc.err)
             /\ retries > 0
       /\ (pc = "done" /\ lastSvc.kind = "error") =>
             ~(RateLimitSignal(lastSvc.err) /\ retries > 0)
       /\ initRetries = 0 => (invocations = 1 /\ pc # "backoff")

\* Two retries, then a failure that is not retried although retries remain.
RetryOrderAndCountsWitness ==
    /\ fn = "retryOperation"
    /\ pc = "done"
    /\ invocations = 3
    /\ warnings = 2
    /\ Len(waits) = 2
    /\ retries > 0
    /\ lastSvc.kind = "error"
    /\ ~RateLimitSignal(lastSvc.err)

---------------------------------------------------------------------------
\* The operations a batch has started: its reference lookups and its image
\* generations, in the order in which they were started.
IsBatchSite(s) == s \in {"refs", "image"}

BatchOps == SelectSeq(ops, IsBatchSite)

\* The operation at site s is running: a request in flight or a back-off.
Active(s) == site = s /\ pc \in {"inflight", "backoff"}

\* C24: a batch that has begun runs to completion.  The plan batch starts one
\* lookup and then, view by view and in order, exactly one image generation,
\* whatever the earlier items gave; the surprise batch starts, style by style
\* and in order, exactly one lookup and then exactly one image generation, and
\* a lookup that failed is followed by that style's image generation: no
\* style is skipped.
BatchRunsToCompletion ==
    fn \in BatchFunctions =>
       /\ fn = "generateInspirationImages" =>
             /\ \A k \in 1..Len(BatchOps) :
                   BatchOps[k] = IF k = 1 THEN "refs" ELSE "image"
             /\ Len(BatchOps) = 1 + Len(log) + IF Active("image") THEN 1 ELSE 0
             /\ pc \in {"done", "returned"} => Len(BatchOps) = 1 + Len(views)
       /\ fn = "generateSurpriseImages" =>
             /\ \A k \in 1..Len(BatchOps) :
                   BatchOps[k] = IF k % 2 = 1 THEN "refs" ELSE "image"
             /\ Len(BatchOps) = 2 * Len(log)
                                + IF Active("refs") THEN 1
                                  ELSE IF Active("image") THEN 2 ELSE 0
             /\ pc \in {"done", "returned"} => Len(BatchOps) = 2 * Len(styles)
             /\ lookup = "failed" => (Active("image") /\ Len(log) = i)
             /\ \A k \in 1..Len(log) : log[k] # "lookupError"

\* The second style's lookup failed after the first style gave no image, and
\* the second style's image generation is running.
BatchRunsToCompletionWitness ==
    /\ fn = "generateSurpriseImages"
    /\ log = <<"noImage">>
    /\ lookup = "failed"
    /\ i = 1
    /\ pc = "inflight"
    /\ site = "image"
    /\ ops = <<"refs", "image", "refs", "image">>

---------------------------------------------------------------------------
\* The items of the batch for which the service finally sent an image.
Successes == { k \in 1..Len(log) : IsImage(log[k]) }

\* C27: generateInspirationImages and generateSurpriseImages never reject:
\* whatever the service does for an item (no image, an error that is not a
\* rate-limit error, or rate-limit errors until the retries are used up), the
\* item is skipped, every item is gone through, and the call resolves with
\* one entry per success.
BatchesNeverReject ==
    fn \in BatchFunctions =>
       /\ result.kind # "rejected"
       /\ pc \in {"done", "returned"} =>
             /\ result.kind = "resolved"
             /\ Len(log) = Items
             /\ Len(result.value) = Cardinality(Successes)

\* Three views, the three kinds of failure, and an empty list as the result.
BatchesNeverRejectWitness ==
    /\ fn = "generateInspirationImages"
    /\ pc = "done"
    /\ log = <<"noImage", "otherError", "rateLimitError">>
    /\ result = Resolved(<<>>)

---------------------------------------------------------------------------
\* The functions that wrap one service request in one retryOperation.
TextFunctions ==
    {"generateProjectPlan", "analyzeStyleFromImage", "generateSurpriseAnalysis",
     "sendProjectChat"}

\* The most invocations one retryOperation with the default budget can make.
MaxInvocations == DefaultRetries + 1

\* How often the running function has started an operation at the current site.
StartedHere == Cardinality({ k \in 1..Len(ops) : ops[k] = site })

---------------------------------------------------------------------------
\* C25: whenever the App is at step 'error', errorMessage is a non-empty
\* string: the error's message, or a fixed default when the error has none,
\* on the plan path, the inspiration path and the surprise path.
ErrorStepHasMessage == step = "error" => errorMessage # <<>>

---------------------------------------------------------------------------
\* C29: every generation the user starts (a preset style, an inspiration
\* image, Surprise Me, another style, a surprise suggestion) takes the App
\* from step 'analyzing' to 'results' or 'error', given that every service
\* call returns or fails; and the App is never at 'analyzing' without a chain
\* in flight.
GenerationLeavesAnalyzing ==
    /\ [](step = "analyzing" => pc \notin {"idle", "done"})
    /\ (step = "analyzing") ~> (step \in {"results", "error"})

\* The inspiration path has run to the results page.
GenerationLeavesAnalyzingWitness ==
    /\ ops = <<"style", "plan", "refs", "image", "image", "image">>
    /\ pc = "done"
    /\ step = "results"
    /\ selectedStyle = <<"Warm", " ", "Japandi">>

---------------------------------------------------------------------------
\* C23: the App's step follows idle -> planning -> (success | failed): steps
\* 'results' and 'error' are entered only from 'analyzing', and 'analyzing'
\* is entered only from 'upload' or 'results', by a generation the user
\* starts; for every interleaving of user actions and service completions.
StepFollowsStateMachine ==
    [][ /\ (step' \in {"results", "error"} /\ step' # step) => step = "analyzing"
        /\ (step' = "analyzing" /\ step' # step) =>
              /\ step \in {"upload", "results"}
              /\ current' # current \/ chains' # chains ]_vars

---------------------------------------------------------------------------
\* C30: at step 'results' resultData is the outcome of the chain started
\* last: a chain started earlier never sets the step or the result after a
\* later one was started or the page was reset, and after resetApp the App
\* stays at 'upload' with resultData null until the user starts a generation.
LatestChainOwnsThePage ==
    /\ pageFrom # "stale"
    /\ current = 0 => (step = "upload" /\ resultData = NoResult)

---------------------------------------------------------------------------
(* The style of the displayed plan.                                        *)

\* C31: whenever a standard plan is displayed at step 'results', selectedStyle
\* (the header's style, the style left out of the "another vibe" buttons and
\* the style handed to the step illustrations) is the style the displayed
\* plan was generated with.
DisplayedPlanHasSelectedStyle ==
    (step = "results" /\ resultData.type = "standard")
        => selectedStyle = fullPlanStyle

---------------------------------------------------------------------------
(* The routes of handleSubmit.                                             *)

\* A handler of the upload page is running or has finished.
InSubmit ==
    /\ fn = "handleSubmit" \/ caller \in {"handleSubmit", "generateFullPlan"}
    /\ before.step # "results"

\* The sites after the first one are a lookup and image generations (plan
\* batch), or lookups and image generations in turn (surprise batch).
PlanBatchFrom(k) ==
    \A n \in k..Len(ops) : ops[n] = IF n = k THEN "refs" ELSE "image"

SurpriseBatchFrom(k) ==
    \A n \in k..Len(ops) : ops[n] = IF (n - k) % 2 = 0 THEN "refs" ELSE "image"

\* C35: handleSubmit routes by a fixed priority and orders its calls.  Without
\* a source image nothing is requested and no state changes; with an
\* inspiration image the style analysis comes first, the plan request follows
\* only once it has succeeded (with the derived style) and a failed analysis
\* ends at 'error'; otherwise 'Surprise Me!' runs the surprise analysis and
\* then the surprise batch; otherwise the plan is requested for the selected
\* style.  Image generation starts only after the plan (or the analysis) it
\* depends on has succeeded.
SubmitRoutesAndOrders ==
    InSubmit =>
      LET r == IF ~Truthy(selectedImage) THEN "none"
               ELSE IF Truthy(inspirationImage) THEN "inspiration"
               ELSE IF selectedStyle = SurpriseMe THEN "surprise"
               ELSE "plan"
      IN
      /\ r = "none" =>
            /\ ops = <<>> /\ requested = {} /\ inflight = 0 /\ pc = "done"
            /\ step = "upload" /\ resultData = NoResult /\ errorMessage = <<>>
      /\ r = "inspiration" =>
            /\ ops # <<>> /\ ops[1] = "style"
            /\ "analysis" \notin requested
            /\ Len(ops) = 1 =>
                  /\ "plan" \notin requested
                  /\ pc = "done" => step = "error"
            /\ Len(ops) >= 2 =>
                  /\ ops[2] = "plan"
                  /\ fullPlanStyle \in { trim(t) : t \in StyleTexts }
                  /\ selectedStyle = fullPlanStyle
            /\ Len(ops) >= 3 => plan # NoPlan /\ PlanBatchFrom(3)
      /\ r = "surprise" =>
            /\ ops # <<>> /\ ops[1] = "analysis"
            /\ requested \cap {"style", "plan"} = {}
            /\ Len(ops) >= 2 => styles # <<>> /\ SurpriseBatchFrom(2)
      /\ r = "plan" =>
            /\ ops # <<>> /\ ops[1] = "plan"
            /\ requested \cap {"style", "analysis"} = {}
            /\ fullPlanStyle = selectedStyle
            /\ Len(ops) >= 2 => plan # NoPlan /\ PlanBatchFrom(2)

SubmitRoutesAndOrdersWitness ==
    /\ InSubmit
    /\ Truthy(inspirationImage)
    /\ Len(ops) >= 4
    /\ step = "results"
    /\ pc = "done"

---------------------------------------------------------------------------
(* The results page and resultData.                                        *)

\* The flow of kind `kind` ends in this step.
Completes(kind) ==
    \E c \in ChainIds : chains[c] = kind /\ chains'[c] = "free"

\* C32: step = 'results' implies that resultData is not null, and its type is
\* that of the flow that completed last: 'surprise' with a list of
\* suggestions, 'standard' with a plan and images.  The results page is
\* entered, and resultData is set, only by a flow that completes, with the
\* result of that flow's type; otherwise resultData changes only to null, with
\* step 'upload'.
ResultsPageHasItsResult ==
    /\ [](step = "results" =>
            /\ resultData # NoResult
            /\ resultData.type \in {"standard", "surprise"}
            /\ resultData.type = "surprise" => "suggestions" \in DOMAIN resultData
            /\ resultData.type = "standard" =>
                  {"plan", "inspirationImages"} \subseteq DOMAIN resultData)
    /\ [][ /\ (step' = "results" /\ step # "results") =>
                  \/ Completes("plan") /\ resultData'.type = "standard"
                  \/ Completes("surprise") /\ resultData'.type = "surprise"
           /\ resultData' # resultData =>
                  \/ Completes("plan") /\ resultData'.type = "standard"
                                       /\ step' = "results"
                  \/ Completes("surprise") /\ resultData'.type = "surprise"
                                           /\ step' = "results"
                  \/ resultData' = NoResult /\ step' = "upload" ]_vars

\* A surprise flow abandoned by resetApp completes after a later plan flow.
ResultsPageHasItsResultWitness ==
    /\ step = "results"
    /\ resultData.type = "surprise"
    /\ pageFrom = "stale"
    /\ selectedImage = Null

---------------------------------------------------------------------------
(* The ChatWidget (App.tsx 102-135) from its mount on: the user types and  *)
(* sends, sendProjectChat runs under retryOperation, the reply is appended.*)

\* What the user may have typed: nothing, blanks, a question, a question
\* after a blank.
ChatInputs == { <<>>, <<" ">>, <<"How", " ", "long?">>, <<" ", "Why?">> }

\* The variables neither a chat exchange nor a step illustration touches.
outsideWidgets ==
    <<script, count, customViews, views, references, i, ref, results, fixedWaits,
      log, styles, lookup, step, resultData, errorMessage, selectedImage,
      initialImage, plan, before, inspirationImage, selectedStyle, fullPlanStyle,
      selectedCategory, chains, illus, flyingChain, flyingIllus, flyingChat,
      current, pageFrom>>

\* The variables a chat exchange leaves alone, and those a step illustration
\* leaves alone.
outsideChat == <<outsideWidgets, illusVars>>

outsideIllustration ==
    <<fn, pc, site, retries, baseDelay, initRetries, initDelay, invocations, waits,
      warnings, lastSvc, result, inflight, requested, ops, caller, isSending,
      chatVars, outsideWidgets>>

\* onChange of the input field: setInput(e.target.value).
SetInput ==
    /\ \E t \in ChatInputs : t # input /\ input' = t
    /\ UNCHANGED <<fn, pc, site, retries, baseDelay, initRetries, initDelay,
                   invocations, waits, warnings, lastSvc, result, inflight, requested,
                   ops, caller, isSending, messages, history, newMessage, outsideChat>>

\* `!input.trim()`.
blank_never(t) == FALSE

blank(t) == trim(t) = <<>>

\* The history handleSend hands to sendProjectChat: `messages` as rendered,
\* which the pending setMessages(prev => [...prev, userMsg]) has not changed.
sendHistory_withNewMessage(msgs, userMsg) == Append(msgs, userMsg)

sendHistory(msgs, userMsg) == msgs

\* handleSend (the send button, or Enter) up to its await: nothing with a
\* blank input or while a message is being sent; else the user's message is
\* appended, the input cleared, isSending set and sendProjectChat called.
CallHandleSend ==
    IF blank(input) \/ ~canSend
    THEN UNCHANGED vars
    ELSE /\ Len(messages) + 2 <= MaxMessages
         /\ messages' = Append(messages, [role |-> "user", text |-> input])
         /\ input' = <<>>
         /\ isSending' = TRUE
         /\ history' = sendHistory(messages, [role |-> "user", text |-> input])
         /\ newMessage' = input
         /\ fn' = "sendProjectChat"
         /\ caller' = "handleSend"
         /\ result' = Pending
         /\ EnterRetry("chat", DefaultRetries, DefaultBaseDelay)
         /\ UNCHANGED outsideChat

\* `await sendProjectChat(...)` has settled: the reply, or the catch block's
\* apology, is appended and `finally` clears isSending.
ChatAfterSend ==
    /\ pc = "returned"
    /\ caller = "handleSend"
    /\ fn = "sendProjectChat"
    /\ messages' = Append(messages,
                          [role |-> "model",
                           text |-> IF result.kind = "resolved" THEN result.value
                                    ELSE MsgSnag])
    /\ isSending' = FALSE
    /\ fn' = "none"
    /\ caller' = "none"
    /\ result' = Pending
    /\ pc' = "idle"
    /\ LeaveRetry
    /\ UNCHANGED <<input, history, newMessage, outsideChat>>

\* What the event loop does for a sent message without the user.
ChatStep ==
    \/ OperationReturns
    \/ OperationThrowsRetried
    \/ OperationThrowsRethrown
    \/ BackoffElapsed
    \/ ChatAfterSend

NextChat ==
    \/ SetInput
    \/ CallHandleSend
    \/ ChatStep

\* Every request is answered or fails, every timer fires and every
\* continuation is run.
SpecChat == Init /\ [][NextChat]_vars /\ WF_vars(ChatStep)

---------------------------------------------------------------------------
(* One StepIllustration (App.tsx 46-99) from its mount to its unmount.  Its *)
(* effect depends on [description, style]: it runs at mount and again when  *)
(* the parent hands the mounted component another description or style     *)
(* (a chain that completes while a plan's page is shown replaces the plan   *)
(* under the mounted components).  Each run has its own `mounted` flag,     *)
(* which the run's cleanup clears.  generateStepImage resolves with an      *)
(* image or with null and never rejects.                                    *)

\* A run of the effect starts: `let mounted = true; fetchImage()`.
NewRun == [mounted |-> TRUE, at |-> "delay", calls |-> 0]

\* The cleanup of the latest run: `mounted = false`.
cleanup(runs) ==
    IF runs = <<>> THEN runs ELSE [runs EXCEPT ![Len(runs)].mounted = FALSE]

\* The component is mounted: the effect runs for the first time.
MountIllustration ==
    /\ illustration.alive = "no"
    /\ illustration' = Mounted
    /\ effects' = <<NewRun>>
    /\ UNCHANGED outsideIllustration

\* `description` or `style` changes under the mounted component: the latest
\* run is cleaned up and the effect runs again; the state stays.
PropsChange ==
    /\ illustration.alive = "mounted"
    /\ Len(effects) < MaxEffects
    /\ effects' = Append(cleanup(effects), NewRun)
    /\ UNCHANGED <<illustration, outsideIllustration>>

\* The component is unmounted: the latest run is cleaned up.
UnmountIllustration ==
    /\ illustration.alive = "mounted"
    /\ illustration' = [illustration EXCEPT !.alive = "gone"]
    /\ effects' = cleanup(effects)
    /\ UNCHANGED outsideIllustration

\* `if (!mounted) return` and `if (mounted) { ... }`.
stillMounted_always(run) == TRUE

stillMounted(run) == run.mounted

\* The random delay of run r is over: `if (!mounted) return`, else
\* generateStepImage(description, style) is called.
StepDelayElapsed ==
    \E r \in 1..Len(effects) :
       /\ effects[r].at = "delay"
       /\ effects' = [effects EXCEPT ![r] =
                         IF stillMounted(@)
                         THEN [@ EXCEPT !.at = "requesting", !.calls = @ + 1]
                         ELSE [@ EXCEPT !.at = "done"]]
       /\ UNCHANGED <<illustration, outsideIllustration>>

\* generateStepImage has settled for run r, with an image or with null:
\* `if (mounted) { if (img) setImageUrl(img); else setHasError(true);
\* setLoading(false); }`.
StepImageSettles ==
    \E r \in 1..Len(effects) : \E img \in {StepImages[r], Null} :
       /\ effects[r].at = "requesting"
       /\ effects' = [effects EXCEPT ![r].at = "done"]
       /\ illustration' =
             IF ~stillMounted(effects[r]) THEN illustration
             ELSE IF Truthy(img)
                  THEN [illustration EXCEPT !.imageUrl = img, !.loading = FALSE]
                  ELSE [illustration EXCEPT !.hasError = TRUE, !.loading = FALSE]
       /\ UNCHANGED outsideIllustration

NextIllustration ==
    \/ MountIllustration
    \/ PropsChange
    \/ UnmountIllustration
    \/ StepDelayElapsed
    \/ StepImageSettles

SpecIllustration == Init /\ [][NextIllustration]_vars

---------------------------------------------------------------------------
(* Leaving the error page, and resetting the App.                          *)

\* C36: the 'Try Again' button of the error page changes only step, to
\* 'upload'; resetApp sets step to 'upload', clears selectedImage,
\* inspirationImage and resultData and restores selectedStyle to
\* Transitional, and leaves selectedCategory and errorMessage as they are.
TryAgainAndResetAppFrames ==
    [][ /\ TryAgain =>
              /\ step' = "upload"
              /\ UNCHANGED <<selectedImage, inspirationImage, selectedStyle,
                             selectedCategory, resultData, errorMessage>>
        /\ ResetApp =>
              /\ step' = "upload"
              /\ selectedImage' = Null
              /\ inspirationImage' = Null
              /\ resultData' = NoResult
              /\ selectedStyle' = Transitional
              /\ UNCHANGED <<selectedCategory, errorMessage>> ]_vars

\* resetApp has run on the error page of a Room Refresh submit.
TryAgainAndResetAppFramesWitness ==
    /\ step = "upload"
    /\ selectedImage = Null
    /\ inspirationImage = Null
    /\ selectedStyle = Transitional
    /\ resultData = NoResult
    /\ selectedCategory = RoomRefresh
    /\ errorMessage # <<>>
    /\ \A c \in ChainIds : chains[c] = "free"

---------------------------------------------------------------------------
(* The chat widget.                                                        *)

\* The texts of an assistant message: sendProjectChat's value, or the apology.
ReplyTexts == ChatTexts \cup {FallbackApology, MsgSnag}

\* C33: in the chat widget at most one chat request is in flight at a time: a
\* send while isSending is true, or with a blank input, changes nothing.
\* Every accepted user message is appended once and is eventually followed by
\* exactly one assistant message (the service's reply, or the apology when
\* the request fails), after which isSending is false again; whenever the
\* widget is idle the messages alternate assistant/user, starting with the
\* greeting.
ChatExchangesAlternate ==
    /\ [](/\ inflight <= 1
          /\ isSending <=> pc # "idle"
          /\ messages[1] = Greeting
          /\ \A k \in 1..Len(messages) :
                /\ messages[k].role = IF k % 2 = 1 THEN "model" ELSE "user"
                /\ k % 2 = 0 => ~(trim(messages[k].text) = <<>>)
                /\ (k % 2 = 1 /\ k > 1) => messages[k].text \in ReplyTexts
          /\ Len(messages) % 2 = IF isSending THEN 0 ELSE 1)
    /\ [][ /\ (CallHandleSend /\ (isSending \/ trim(input) = <<>>)) => UNCHANGED vars
           /\ (isSending /\ isSending') => messages' = messages
           /\ messages' # messages =>
                 /\ Len(messages') = Len(messages) + 1
                 /\ SubSeq(messages', 1, Len(messages)) = messages
                 /\ isSending' = ~isSending ]_vars
    /\ \A n \in 1..MaxMessages :
          (isSending /\ Len(messages) = n)
             ~> (~isSending /\ Len(messages) = n + 1)

\* Two exchanges are over: one answered by the service, one by the apology.
ChatExchangesAlternateWitness ==
    /\ ~isSending
    /\ Len(messages) = 5
    /\ messages[3].text \in ChatTexts
    /\ messages[5].text = MsgSnag
    /\ ~(input = <<>>) /\ trim(input) = <<>>

\* C34: for every chat send, the history given to sendProjectChat is the full
\* list of the messages that preceded the new user message, in order, and the
\* new message is passed as the new question only: the request holds every
\* prior message once and the new message once, each history line with its
\* role's prefix ('User' for user messages, 'Homey' otherwise).
ChatRequestCarriesHistory ==
    (fn = "sendProjectChat" /\ caller = "handleSend") =>
       LET p == chatPrompt(history, newMessage)
           n == Len(history)
       IN /\ Len(messages) = n + 1
          /\ history = SubSeq(messages, 1, n)
          /\ messages[n + 1] = [role |-> "user", text |-> newMessage]
          /\ Len(p.historyText) = n
          /\ \A k \in 1..n :
                p.historyText[k] =
                   << IF messages[k].role = "user" THEN "User" ELSE "Homey",
                      ": ", messages[k].text >>
          /\ p.question = newMessage

\* The second question is being sent: the history holds the first exchange.
ChatRequestCarriesHistoryWitness ==
    /\ fn = "sendProjectChat"
    /\ caller = "handleSend"
    /\ pc = "inflight"
    /\ Len(history) = 3
    /\ history[2].role = "user"
    /\ ~(newMessage = history[2].text)

---------------------------------------------------------------------------
(* The step illustration.                                                  *)

\* The generateStepImage calls made since the component was mounted.
RECURSIVE CallsSinceMount(_)
CallsSinceMount(runs) ==
    IF runs = <<>> THEN 0 ELSE Head(runs).calls + CallsSinceMount(Tail(runs))

=============================================================================
